---- MODULE Spec2Model ----
(***************************************************************************)
(* martin-db: an in-memory relational store.  The model covers the         *)
(* execution engine (src/src/engine/mod.rs), saving to and loading from    *)
(* database.json (src/src/storage/mod.rs), the parser                      *)
(* (src/src/parser/mod.rs) and the two front ends (src/src/bin/web.rs,     *)
(* src/src/bin/repl.rs).                                                   *)
(*                                                                         *)
(* Conventions.  Vec<T> is a sequence, HashSet<T> a set, HashMap<K,V> a    *)
(* function on its key set, Option<T> a sequence of length 0 or 1.         *)
(* Positions are 1-based here and 0-based in the source; no position is    *)
(* ever visible in a result.  A Result<T, DbError> is a record whose tag   *)
(* is the variant's name.                                                  *)
(***************************************************************************)
EXTENDS Integers, Sequences, FiniteSets, TLC

VARIABLES
    db,        \* Database.tables of the running process: table name -> Table
    inc,       \* the same Database with the indexes as insert_row built
               \* them, never rebuilt by load_from_disk
    prev,      \* Database.tables as the current call of execute found it
    stmt,      \* the Statement handed to execute, NoStmt between calls
    res,       \* what execute returned on db for stmt
    incRes,    \* what execute returned on inc for stmt
    justLoaded, \* TRUE when db is as load_from_disk returned it: between the
               \* load and the first call, and during that call if an Insert
    query,     \* the text handed to parse
    tokens,    \* parse's local: Some(tokenize(query)) once parse has run
    parsed,    \* Some(result of parse(query)) once parse has run
    frontEnd,  \* the running binary: "web" or "repl"; "none" where parse
               \* is called on its own
    lock,      \* the handler holding the RwLock's write guard, 0 when free
    reqs,      \* per handler: its position, its text, what parse and execute
               \* returned; in the REPL handler 1 is main, "exited" once
               \* main has returned
    disk,      \* database.json
    arrived,   \* the front ends on texts: number of requests received so far
    serial,    \* the front ends on texts: the Database had the requests run
               \* one at a time, in the order in which they started to run
    lastSave,  \* the front ends on texts: None, or Some(what the latest call
               \* of save_to_disk of this process returned)
    saved      \* the REPL on Statements: inc as it was when database.json
               \* was last written in full

engineVars == <<db, inc, prev, stmt, res, incRes, justLoaded, saved>>
parserVars == <<query, tokens, parsed>>
frontVars == <<frontEnd, lock, reqs, disk, arrived, serial, lastSave>>
vars == <<db, inc, prev, stmt, res, incRes, justLoaded, query, tokens, parsed,
          frontEnd, lock, reqs, disk, arrived, serial, lastSave, saved>>

(***************************************************************************)
(* Bounds of the model.                                                    *)
(***************************************************************************)
MaxRows == 2      \* rows held by the whole Database
MaxVals == 3      \* values in an INSERT: up to one more than any table has columns
MaxSel  == 2      \* names in the column list of a SELECT
MaxLen  == 4      \* characters of a free text handed to parse
MaxWords == 5     \* words of a statement head handed to parse
MaxBody == 6      \* tokens after the `(` of a CREATE TABLE handed to parse
MaxChars == 5     \* characters between the `(` and `)` of an INSERT handed to parse
MaxTail == 7      \* tokens after the FROM of a SELECT handed to parse
MaxRequests == 3  \* requests a front end receives

TableNames == {"t", "u"}
ColNames   == {"a", "b"}

(***************************************************************************)
(* Value: Integer(i32) | Text(String) | Null, compared structurally.       *)
(***************************************************************************)
Integer(n) == [tag |-> "Integer", int |-> n, text |-> ""]
Text(s)    == [tag |-> "Text", int |-> 0, text |-> s]
Null       == [tag |-> "Null", int |-> 0, text |-> ""]

\* The values an INSERT carries (the parser produces no Null).
Values == {Integer(1), Text("1")}

(***************************************************************************)
(* Column and the column definitions a CREATE TABLE may carry.             *)
(***************************************************************************)
Column(name, data_type, is_primary, is_unique) ==
    [name |-> name, data_type |-> data_type,
     is_primary |-> is_primary, is_unique |-> is_unique]

\* The column lists CREATE TABLE is called with: no column; one unique
\* column; a primary and a plain column; a primary and a unique column; a
\* plain and a unique column of the same name.
Schemas ==
    { <<>>,
      << Column("b", "TEXT", FALSE, TRUE) >>,
      << Column("a", "INT", TRUE, FALSE), Column("b", "TEXT", FALSE, FALSE) >>,
      << Column("a", "INT", TRUE, FALSE), Column("b", "TEXT", FALSE, TRUE) >>,
      << Column("b", "TEXT", FALSE, FALSE), Column("b", "INT", FALSE, TRUE) >> }

SeqsUpTo(S, n) == UNION { [1..k -> S] : k \in 0..n }

Range(f) == { f[i] : i \in DOMAIN f }

(***************************************************************************)
(* DbError and ExecutionResult.                                            *)
(***************************************************************************)
Err(tag, arg) == [tag |-> tag, arg |-> arg, headers |-> <<>>, rows |-> <<>>]
TableAlreadyExists(n) == Err("TableAlreadyExists", n)
TableNotFound(n)      == Err("TableNotFound", n)
ColumnNotFound(n)     == Err("ColumnNotFound", n)
UniqueViolation(n)    == Err("UniqueViolation", n)
ParseError(m)         == Err("ParseError", m)

Message(m, arg) == [tag |-> "Message", text |-> m, arg |-> arg,
                    headers |-> <<>>, rows |-> <<>>]
Data(headers, rows) == [tag |-> "Data", arg |-> "", headers |-> headers, rows |-> rows]

ErrorTags == {"TableAlreadyExists", "TableNotFound", "ColumnNotFound",
              "UniqueViolation", "ParseError", "IoError"}
IsErr(r) == r.tag \in ErrorTags
IsOk(r)  == r.tag \in {"Message", "Data"}

NoRes  == [tag |-> "None"]
NoStmt == [kind |-> "None"]

(***************************************************************************)
(* Table                                                                   *)
(***************************************************************************)
\* The positions Table::new and rebuild_indexes give an index to.
IndexedPositions(columns) ==
    { i \in 1..Len(columns) : columns[i].is_primary \/ columns[i].is_unique }

\* Faulty variant: only primary columns get an index.
Table_new_PrimaryOnly(name, columns) ==
    [name |-> name,
     columns |-> columns,
     rows |-> <<>>,
     indexes |-> [i \in { j \in 1..Len(columns) : columns[j].is_primary } |-> {}]]

Table_new(name, columns) ==
    [name |-> name,
     columns |-> columns,
     rows |-> <<>>,
     indexes |-> [i \in IndexedPositions(columns) |-> {}]]

\* Faulty variant: the check stops after the first indexed column.
ViolatedPositions_FirstIndexOnly(table, row) ==
    { i \in 1..Len(row) :
        /\ i \in DOMAIN table.indexes
        /\ \A j \in DOMAIN table.indexes : i <= j
        /\ row[i] \in table.indexes[i] }

\* First loop of insert_row: the positions whose index already holds the value.
ViolatedPositions(table, row) ==
    { i \in 1..Len(row) : i \in DOMAIN table.indexes /\ row[i] \in table.indexes[i] }

Min(S) == CHOOSE m \in S : \A x \in S : m <= x

\* Second loop of insert_row: every index gains the row's value at its position.
UpdatedIndexes(table, row) ==
    [i \in DOMAIN table.indexes |->
        IF i \in 1..Len(row) THEN table.indexes[i] \cup {row[i]} ELSE table.indexes[i]]

\* Faulty variant: one loop checks and updates, so the indexes before the violated
\* position have already taken the row's values when the insert is refused.
insert_row_SingleLoop(table, row) ==
    IF Len(row) # Len(table.columns)
    THEN [table |-> table, res |-> ParseError("Columns count mismatch")]
    ELSE IF ViolatedPositions(table, row) # {}
    THEN LET v == Min(ViolatedPositions(table, row))
         IN [table |-> [table EXCEPT !.indexes =
                           [i \in DOMAIN table.indexes |->
                               IF i < v THEN table.indexes[i] \cup {row[i]}
                               ELSE table.indexes[i]]],
             res |-> UniqueViolation(table.columns[v].name)]
    ELSE [table |-> [table EXCEPT !.indexes = UpdatedIndexes(table, row),
                                  !.rows = Append(table.rows, row)],
          res |-> Message("1 row inserted.", "")]

\* Faulty variant: the row is pushed before it is validated.
insert_row_PushFirst(table, row) ==
    LET pushed == [table EXCEPT !.rows = Append(table.rows, row)] IN
    IF Len(row) # Len(table.columns)
    THEN [table |-> pushed, res |-> ParseError("Columns count mismatch")]
    ELSE IF ViolatedPositions(table, row) # {}
    THEN [table |-> pushed,
          res |-> UniqueViolation(table.columns[Min(ViolatedPositions(table, row))].name)]
    ELSE [table |-> [pushed EXCEPT !.indexes = UpdatedIndexes(table, row)],
          res |-> Message("1 row inserted.", "")]

\* Faulty variant: the uniqueness check comes before the arity check.
insert_row_UniqueFirst(table, row) ==
    IF ViolatedPositions(table, row) # {}
    THEN [table |-> table,
          res |-> UniqueViolation(table.columns[Min(ViolatedPositions(table, row))].name)]
    ELSE IF Len(row) # Len(table.columns)
    THEN [table |-> table, res |-> ParseError("Columns count mismatch")]
    ELSE [table |-> [table EXCEPT !.indexes = UpdatedIndexes(table, row),
                                  !.rows = Append(table.rows, row)],
          res |-> Message("1 row inserted.", "")]

\* Faulty variant: only a row that is too short is refused.
insert_row_LongAccepted(table, row) ==
    IF Len(row) < Len(table.columns)
    THEN [table |-> table, res |-> ParseError("Columns count mismatch")]
    ELSE IF ViolatedPositions(table, row) # {}
    THEN [table |-> table,
          res |-> UniqueViolation(table.columns[Min(ViolatedPositions(table, row))].name)]
    ELSE [table |-> [table EXCEPT !.indexes = UpdatedIndexes(table, row),
                                  !.rows = Append(table.rows, row)],
          res |-> Message("1 row inserted.", "")]

\* Faulty variant: the new row goes to the front of the table.
insert_row_Prepend(table, row) ==
    IF Len(row) # Len(table.columns)
    THEN [table |-> table, res |-> ParseError("Columns count mismatch")]
    ELSE IF ViolatedPositions(table, row) # {}
    THEN [table |-> table,
          res |-> UniqueViolation(table.columns[Min(ViolatedPositions(table, row))].name)]
    ELSE [table |-> [table EXCEPT !.indexes = UpdatedIndexes(table, row),
                                  !.rows = <<row>> \o table.rows],
          res |-> Message("1 row inserted.", "")]

\* Lines 59-86: refuse on arity, then on the first violated index, else
\* update every index and push the row.
insert_row(table, row) ==
    IF Len(row) # Len(table.columns)
    THEN [table |-> table, res |-> ParseError("Columns count mismatch")]
    ELSE IF ViolatedPositions(table, row) # {}
    THEN [table |-> table,
          res |-> UniqueViolation(table.columns[Min(ViolatedPositions(table, row))].name)]
    ELSE [table |-> [table EXCEPT !.indexes = UpdatedIndexes(table, row),
                                  !.rows = Append(table.rows, row)],
          res |-> Message("1 row inserted.", "")]

\* Faulty variant: the sets are created and never populated.
rebuild_indexes_NoPopulate(table) ==
    [table EXCEPT !.indexes = [i \in IndexedPositions(table.columns) |-> {}]]

rebuild_indexes(table) ==
    [table EXCEPT !.indexes =
        [i \in IndexedPositions(table.columns) |->
            { table.rows[r][i] : r \in { q \in DOMAIN table.rows : i <= Len(table.rows[q]) } }]]

(***************************************************************************)
(* Database                                                                *)
(***************************************************************************)
Database_new == [n \in {} |-> Table_new(n, <<>>)]

contains_key(tables, name) == name \in DOMAIN tables

MapInsert(tables, name, table) ==
    [n \in DOMAIN tables \cup {name} |-> IF n = name THEN table ELSE tables[n]]

\* Faulty variant: the table is inserted first and the old entry found afterwards.
create_table_InsertFirst(tables, name, columns) ==
    [db |-> MapInsert(tables, name, Table_new(name, columns)),
     res |-> IF contains_key(tables, name) THEN TableAlreadyExists(name)
             ELSE Message("Table '{}' created", name)]

create_table(tables, name, columns) ==
    IF contains_key(tables, name)
    THEN [db |-> tables, res |-> TableAlreadyExists(name)]
    ELSE [db |-> MapInsert(tables, name, Table_new(name, columns)),
          res |-> Message("Table '{}' created", name)]

\* Iterator::position: the first position whose column has the name, 0 for None.
position(columns, name) ==
    IF \E i \in 1..Len(columns) : columns[i].name = name
    THEN Min({ i \in 1..Len(columns) : columns[i].name = name })
    ELSE 0

Max(S) == CHOOSE m \in S : \A x \in S : m >= x

\* Faulty variant: the last missing name is reported.
col_indices_LastMissing(table, columns) ==
    IF "*" \in Range(columns)
    THEN [ok |-> TRUE, idx |-> [i \in 1..Len(table.columns) |-> i], err |-> NoRes]
    ELSE LET missing == { k \in 1..Len(columns) : position(table.columns, columns[k]) = 0 }
         IN IF missing # {}
            THEN [ok |-> FALSE, idx |-> <<>>, err |-> ColumnNotFound(columns[Max(missing)])]
            ELSE [ok |-> TRUE,
                  idx |-> [k \in 1..Len(columns) |-> position(table.columns, columns[k])],
                  err |-> NoRes]

\* Faulty variant: the table's columns are filtered by the requested names, so the
\* projection comes out in declaration order.
col_indices_TableOrder(table, columns) ==
    IF "*" \in Range(columns)
    THEN [ok |-> TRUE, idx |-> [i \in 1..Len(table.columns) |-> i], err |-> NoRes]
    ELSE LET missing == { k \in 1..Len(columns) : position(table.columns, columns[k]) = 0 }
         IN IF missing # {}
            THEN [ok |-> FALSE, idx |-> <<>>, err |-> ColumnNotFound(columns[Min(missing)])]
            ELSE [ok |-> TRUE,
                  idx |-> SelectSeq([i \in 1..Len(table.columns) |-> i],
                                    LAMBDA i : table.columns[i].name \in Range(columns)),
                  err |-> NoRes]

\* Faulty variant: `*` selects the whole row only when it is the whole list.
col_indices_StarAlone(table, columns) ==
    IF columns = <<"*">>
    THEN [ok |-> TRUE, idx |-> [i \in 1..Len(table.columns) |-> i], err |-> NoRes]
    ELSE LET missing == { k \in 1..Len(columns) : position(table.columns, columns[k]) = 0 }
         IN IF missing # {}
            THEN [ok |-> FALSE, idx |-> <<>>, err |-> ColumnNotFound(columns[Min(missing)])]
            ELSE [ok |-> TRUE,
                  idx |-> [k \in 1..Len(columns) |-> position(table.columns, columns[k])],
                  err |-> NoRes]

\* Lines 215-228: the projected positions, or the error of the first name
\* (in requested order) that no column has.
col_indices(table, columns) ==
    IF "*" \in Range(columns)
    THEN [ok |-> TRUE, idx |-> [i \in 1..Len(table.columns) |-> i], err |-> NoRes]
    ELSE LET missing == { k \in 1..Len(columns) : position(table.columns, columns[k]) = 0 }
         IN IF missing # {}
            THEN [ok |-> FALSE, idx |-> <<>>, err |-> ColumnNotFound(columns[Min(missing)])]
            ELSE [ok |-> TRUE,
                  idx |-> [k \in 1..Len(columns) |-> position(table.columns, columns[k])],
                  err |-> NoRes]

\* Lines 230-239: headers and projected rows of the no-join path.
project(table, idx) ==
    Data([k \in 1..Len(idx) |-> table.columns[idx[k]].name],
         [r \in 1..Len(table.rows) |-> [k \in 1..Len(idx) |-> table.rows[r][idx[k]]]])

\* format!("{}.{}", table, column)
Qualified(t, c) == <<t, ".", c>>

\* Faulty variant: the right table's rows drive the outer loop.
RECURSIVE join_rows_RightOuter(_, _, _, _, _, _)
join_rows_RightOuter(lrows, rrows, li, ri, i, j) ==
    IF j > Len(rrows) THEN <<>>
    ELSE IF i > Len(lrows) THEN join_rows_RightOuter(lrows, rrows, li, ri, 1, j + 1)
    ELSE (IF lrows[i][li] = rrows[j][ri] THEN << lrows[i] \o rrows[j] >> ELSE <<>>)
         \o join_rows_RightOuter(lrows, rrows, li, ri, i + 1, j)

\* Lines 257-282: headers and rows of the nested-loop join.
RECURSIVE join_rows(_, _, _, _, _, _)
join_rows(lrows, rrows, li, ri, i, j) ==
    IF i > Len(lrows) THEN <<>>
    ELSE IF j > Len(rrows) THEN join_rows(lrows, rrows, li, ri, i + 1, 1)
    ELSE (IF lrows[i][li] = rrows[j][ri] THEN << lrows[i] \o rrows[j] >> ELSE <<>>)
         \o join_rows(lrows, rrows, li, ri, i, j + 1)

\* Faulty variant: the right table's headers come first.
join_headers_RightFirst(left_table, right_table) ==
    [k \in 1..Len(right_table.columns) |->
        Qualified(right_table.name, right_table.columns[k].name)]
    \o [k \in 1..Len(left_table.columns) |->
        Qualified(left_table.name, left_table.columns[k].name)]

\* Lines 260-266: every left column, then every right column, qualified.
join_headers(left_table, right_table) ==
    [k \in 1..Len(left_table.columns) |->
        Qualified(left_table.name, left_table.columns[k].name)]
    \o [k \in 1..Len(right_table.columns) |->
        Qualified(right_table.name, right_table.columns[k].name)]

\* Lines 214-240: the no-join path.
select_basic(table, columns) ==
    LET ci == col_indices(table, columns)
    IN IF ci.ok THEN project(table, ci.idx) ELSE ci.err

\* Faulty variant: the left join column is resolved before the right table is looked up.
select_join_LeftColumnFirst(tables, left_table, join_info) ==
    IF position(left_table.columns, join_info.left_column) = 0
    THEN ColumnNotFound(join_info.left_column)
    ELSE IF ~contains_key(tables, join_info.table_name)
    THEN TableNotFound(join_info.table_name)
    ELSE LET right_table == tables[join_info.table_name]
             left_col_idx == position(left_table.columns, join_info.left_column)
             right_col_idx == position(right_table.columns, join_info.right_column)
         IN IF right_col_idx = 0 THEN ColumnNotFound(join_info.right_column)
            ELSE Data(join_headers(left_table, right_table),
                      join_rows(left_table.rows, right_table.rows,
                                left_col_idx, right_col_idx, 1, 1))

\* Lines 242-283: the join path, the left table already resolved.
select_join(tables, left_table, join_info) ==
    IF ~contains_key(tables, join_info.table_name)
    THEN TableNotFound(join_info.table_name)
    ELSE LET right_table == tables[join_info.table_name]
             left_col_idx == position(left_table.columns, join_info.left_column)
             right_col_idx == position(right_table.columns, join_info.right_column)
         IN IF left_col_idx = 0 THEN ColumnNotFound(join_info.left_column)
            ELSE IF right_col_idx = 0 THEN ColumnNotFound(join_info.right_column)
            ELSE Data(join_headers(left_table, right_table),
                      join_rows(left_table.rows, right_table.rows,
                                left_col_idx, right_col_idx, 1, 1))

\* Faulty variant: the join path resolves the requested names in the left table.
handle_select_JoinResolves(tables, table_name, columns, join) ==
    IF ~contains_key(tables, table_name) THEN TableNotFound(table_name)
    ELSE IF join = <<>> THEN select_basic(tables[table_name], columns)
    ELSE IF ~col_indices(tables[table_name], columns).ok
    THEN col_indices(tables[table_name], columns).err
    ELSE select_join(tables, tables[table_name], join[1])

\* Lines 205-283: the left table, then the no-join path or the join path.
handle_select(tables, table_name, columns, join) ==
    IF ~contains_key(tables, table_name) THEN TableNotFound(table_name)
    ELSE IF join = <<>> THEN select_basic(tables[table_name], columns)
    ELSE select_join(tables, tables[table_name], join[1])

execute(tables, statement) ==
    CASE statement.kind = "CreateTable" ->
            create_table(tables, statement.name, statement.columns)
      [] statement.kind = "Insert" ->
            IF ~contains_key(tables, statement.table_name)
            THEN [db |-> tables, res |-> TableNotFound(statement.table_name)]
            ELSE LET r == insert_row(tables[statement.table_name], statement.values)
                 IN [db |-> [tables EXCEPT ![statement.table_name] = r.table],
                     res |-> r.res]
      [] statement.kind = "Select" ->
            [db |-> tables,
             res |-> handle_select(tables, statement.table_name,
                                   statement.columns, statement.join)]

(***************************************************************************)
(* Persistence (src/src/storage/mod.rs).  database.json is described by    *)
(* what is at the path (nothing, a regular file, a directory), by whether  *)
(* the process may open it for reading and for writing, and by its bytes:  *)
(* a Database as save_to_disk wrote it, text that is not a Database        *)
(* (nothing, or the beginning of one), or bytes that are not UTF-8.  An    *)
(* absent file has no permissions: the file File::create makes gets them   *)
(* from the umask of the process that makes it.  The snapshot holds every  *)
(* table's name, columns and rows; indexes is #[serde(skip)], so it is     *)
(* absent from the file and comes back as the empty map, which             *)
(* load_from_disk then rebuilds.                                           *)
(***************************************************************************)
IoError(m) == Err("IoError", m)

\* Ok(()) of save_to_disk and Ok(db) of load_from_disk.
OkUnit == [tag |-> "Ok"]
OkDatabase(tables) == [tag |-> "Ok", db |-> tables]

\* serde_json::to_string_pretty(db)
to_string_pretty(tables) ==
    [n \in DOMAIN tables |->
        [name |-> tables[n].name, columns |-> tables[n].columns, rows |-> tables[n].rows]]

NoSnapshot == to_string_pretty(Database_new)

\* Nothing at the path.  The two permissions mean nothing here and are
\* never read; they keep every file a record of one shape.
NoFile ==
    [kind |-> "absent", readable |-> FALSE, writable |-> FALSE,
     bytes |-> "none", tables |-> NoSnapshot]
Written(tables, readable, writable) ==
    [kind |-> "regular", readable |-> readable, writable |-> writable,
     bytes |-> "database", tables |-> to_string_pretty(tables)]
Broken(readable, writable) ==
    [kind |-> "regular", readable |-> readable, writable |-> writable,
     bytes |-> "text", tables |-> NoSnapshot]
NotUtf8(readable, writable) ==
    [kind |-> "regular", readable |-> readable, writable |-> writable,
     bytes |-> "binary", tables |-> NoSnapshot]
Directory(readable) ==
    [kind |-> "directory", readable |-> readable, writable |-> FALSE,
     bytes |-> "none", tables |-> NoSnapshot]

\* What the umask leaves of the mode of a file File::create makes.
Umasks == [readable : BOOLEAN, writable : BOOLEAN]

\* File::create succeeds on this file unless something else goes wrong: it
\* makes a file where there is none, whatever mode the umask gives it, and
\* opens one that is there for writing.
CanCreate(file) ==
    \/ file.kind = "absent"
    \/ file.kind = "regular" /\ file.writable

\* What can go wrong in a call of save_to_disk on this file: the
\* serialization, File::create, write_all; write_all can stop inside a
\* character only if the snapshot has one of more than one byte.
SaveFaults(file, multibyte) ==
    {"serialize", "create"}
    \cup (IF CanCreate(file) THEN {"none", "write"} ELSE {})
    \cup (IF CanCreate(file) /\ multibyte THEN {"write_in_char"} ELSE {})

\* Lines 8-19: the result and the file afterwards.  File::create makes the
\* file with the mode the umask leaves, or empties the file that is there
\* and leaves its mode as it is, so a failed write_all leaves at most the
\* beginning of the snapshot.
save_to_disk(tables, file, umask, fault) ==
    LET mode == IF file.kind = "absent" THEN umask
                ELSE [readable |-> file.readable, writable |-> file.writable]
    IN IF fault = "serialize"
       THEN [res |-> IoError("Serialization failed: {}"), file |-> file]
       ELSE IF fault = "create" \/ ~CanCreate(file)
       THEN [res |-> IoError("failed to create database file: {}"), file |-> file]
       ELSE IF fault = "write"
       THEN [res |-> IoError(" Write to database file failed: {}"),
             file |-> Broken(mode.readable, mode.writable)]
       ELSE IF fault = "write_in_char"
       THEN [res |-> IoError(" Write to database file failed: {}"),
             file |-> NotUtf8(mode.readable, mode.writable)]
       ELSE [res |-> OkUnit, file |-> Written(tables, mode.readable, mode.writable)]

\* serde_json::from_str::<Database>: Some(tables without indexes), or None
\* when the contents are not a Database.
from_str(file) ==
    IF file.bytes = "database"
    THEN <<[n \in DOMAIN file.tables |->
              [name |-> file.tables[n].name, columns |-> file.tables[n].columns,
               rows |-> file.tables[n].rows, indexes |-> [i \in {} |-> {}]]]>>
    ELSE <<>>

\* Lines 20-41.
load_from_disk(file) ==
    IF file.kind = "absent" THEN OkDatabase(Database_new)
    ELSE IF ~file.readable THEN IoError("Could not open file: {}")
    ELSE IF file.kind = "directory" \/ file.bytes = "binary"
    THEN IoError("Read file failed: {}")
    ELSE LET d == from_str(file)
         IN IF d = <<>> THEN IoError("Deserialization failed:{}")
            ELSE OkDatabase([n \in DOMAIN d[1] |-> rebuild_indexes(d[1][n])])

\* load_from_disk().unwrap_or_else(|_| Database::new()), as both binaries
\* start.
load_or_new(file) ==
    LET r == load_from_disk(file)
    IN IF r.tag = "Ok" THEN r.db ELSE Database_new

(***************************************************************************)
(* The statements execute is called with.                                  *)
(***************************************************************************)
CreateTable(name, columns) == [kind |-> "CreateTable", name |-> name, columns |-> columns]
Insert(table_name, values) == [kind |-> "Insert", table_name |-> table_name, values |-> values]
Select(table_name, columns, join) ==
    [kind |-> "Select", table_name |-> table_name, columns |-> columns, join |-> join]
JoinDefinition(table_name, left_column, right_column) ==
    [table_name |-> table_name, left_column |-> left_column, right_column |-> right_column]

RowInputs == SeqsUpTo(Values, MaxVals)
SelLists  == SeqsUpTo(ColNames \cup {"*"}, MaxSel)
\* The column lists of the calls with a join: the empty list and the lists
\* of one name.  C26 compares each such call with every list of SelLists.
JoinSelLists == SeqsUpTo(ColNames \cup {"*"}, 1)
Joins     == { <<JoinDefinition(t, l, r)>> : t \in TableNames, l \in ColNames, r \in ColNames }

TotalRows(tables) ==
    LET RECURSIVE Sum(_)
        Sum(S) == IF S = {} THEN 0
                  ELSE LET n == CHOOSE x \in S : TRUE
                       IN Len(tables[n].rows) + Sum(S \ {n})
    IN Sum(DOMAIN tables)

(***************************************************************************)
(* The parser (src/src/parser/mod.rs).  A String is the sequence of its    *)
(* characters; a token is a String.  An ASCII character is the string of   *)
(* that one character; a character outside ASCII is written by its code    *)
(* point, as in "U+00A0".                                                  *)
(***************************************************************************)
LowerCase == <<"a", "b", "c", "d", "e", "f", "g", "h", "i", "j", "k", "l", "m",
               "n", "o", "p", "q", "r", "s", "t", "u", "v", "w", "x", "y", "z">>
UpperCase == <<"A", "B", "C", "D", "E", "F", "G", "H", "I", "J", "K", "L", "M",
               "N", "O", "P", "Q", "R", "S", "T", "U", "V", "W", "X", "Y", "Z">>

\* The upper case of characters outside ASCII: every one whose upper case
\* holds an ASCII letter (dotless i, long s, sharp s, the ligatures, the
\* letters that decompose), then e acute and the micro sign, whose upper
\* case is a single character outside ASCII again.
SpecialUpper ==
    { <<"U+00DF", <<"S", "S">>>>,      <<"U+0131", <<"I">>>>,
      <<"U+0149", <<"U+02BC", "N">>>>, <<"U+017F", <<"S">>>>,
      <<"U+01F0", <<"J", "U+030C">>>>, <<"U+1E96", <<"H", "U+0331">>>>,
      <<"U+1E97", <<"T", "U+0308">>>>, <<"U+1E98", <<"W", "U+030A">>>>,
      <<"U+1E99", <<"Y", "U+030A">>>>, <<"U+1E9A", <<"A", "U+02BE">>>>,
      <<"U+FB00", <<"F", "F">>>>,      <<"U+FB01", <<"F", "I">>>>,
      <<"U+FB02", <<"F", "L">>>>,      <<"U+FB03", <<"F", "F", "I">>>>,
      <<"U+FB04", <<"F", "F", "L">>>>, <<"U+FB05", <<"S", "T">>>>,
      <<"U+FB06", <<"S", "T">>>>,
      <<"U+00E9", <<"U+00C9">>>>,      <<"U+00B5", <<"U+039C">>>> }

\* The characters of the model: ASCII, the characters of SpecialUpper and
\* their upper cases, and the white space outside ASCII.  Each of them
\* that is not named below is its own upper case.
\* char::to_uppercase: one character, or two or three.
to_uppercase_char(c) ==
    IF \E i \in 1..26 : LowerCase[i] = c
    THEN <<UpperCase[CHOOSE i \in 1..26 : LowerCase[i] = c]>>
    ELSE IF \E m \in SpecialUpper : m[1] = c
    THEN (CHOOSE m \in SpecialUpper : m[1] = c)[2]
    ELSE <<c>>

\* str::to_uppercase: the upper cases of the characters, one after the other.
RECURSIVE to_uppercase(_)
to_uppercase(s) ==
    IF s = <<>> THEN <<>> ELSE to_uppercase_char(Head(s)) \o to_uppercase(Tail(s))

\* The characters with the property White_Space: U+0009 to U+000D and the
\* space in ASCII, and those outside ASCII.
WhiteSpace ==
    {"\t", "\n", "", "\f", "\r", " ",
     "U+0085", "U+00A0", "U+1680", "U+2000", "U+2001", "U+2002", "U+2003",
     "U+2004", "U+2005", "U+2006", "U+2007", "U+2008", "U+2009", "U+200A",
     "U+2028", "U+2029", "U+202F", "U+205F", "U+3000"}

\* char::is_whitespace
is_whitespace(c) == c \in WhiteSpace

RECURSIVE Concat(_)
Concat(ss) == IF ss = <<>> THEN <<>> ELSE Head(ss) \o Concat(Tail(ss))

\* str::replace(from: char, to: &str)
replace(s, from, to) ==
    Concat([i \in 1..Len(s) |-> IF s[i] = from THEN to ELSE <<s[i]>>])

\* str::split_whitespace: the maximal runs of non-whitespace, none empty.
RECURSIVE split_whitespace(_)
split_whitespace(s) ==
    IF s = <<>> THEN <<>>
    ELSE IF is_whitespace(s[1]) THEN split_whitespace(Tail(s))
    ELSE LET stops == { i \in 1..Len(s) : is_whitespace(s[i]) }
             end == IF stops = {} THEN Len(s) ELSE Min(stops) - 1
         IN <<SubSeq(s, 1, end)>> \o split_whitespace(SubSeq(s, end + 1, Len(s)))

\* Faulty variant: commas are not set apart.
tokenize_CommaInWord(input) ==
    split_whitespace(
        replace(replace(input, "(", <<" ", "(", " ">>), ")", <<" ", ")", " ">>))

\* Lines 39-47.
tokenize(input) ==
    split_whitespace(
        replace(replace(replace(input, "(", <<" ", "(", " ">>),
                        ")", <<" ", ")", " ">>),
                ",", <<" ", ",", " ">>))

\* Result<Statement, String>
Ok(statement) == [tag |-> "Ok", stmt |-> statement]
ParseErr(msg, arg) == [tag |-> "Err", msg |-> msg, arg |-> arg]

ColumnDefinition(name, data_type, is_primary, is_unique) ==
    [name |-> name, data_type |-> data_type,
     is_primary |-> is_primary, is_unique |-> is_unique]

\* The keywords the parser compares upper-cased tokens with, and the delimiters.
kwCREATE == <<"C", "R", "E", "A", "T", "E">>
kwINSERT == <<"I", "N", "S", "E", "R", "T">>
kwSELECT == <<"S", "E", "L", "E", "C", "T">>
kwTABLE == <<"T", "A", "B", "L", "E">>
kwINTO == <<"I", "N", "T", "O">>
kwVALUES == <<"V", "A", "L", "U", "E", "S">>
kwFROM == <<"F", "R", "O", "M">>
kwPRIMARY == <<"P", "R", "I", "M", "A", "R", "Y">>
kwUNIQUE == <<"U", "N", "I", "Q", "U", "E">>
LParen == <<"(">>
RParen == <<")">>
Comma  == <<",">>

\* Faulty variant: only the first of PRIMARY and UNIQUE counts.
RECURSIVE modifiers_FirstOnly(_, _, _)
modifiers_FirstOnly(iter, is_primary, is_unique) ==
    IF iter = <<>>
    THEN [iter |-> iter, is_primary |-> is_primary, is_unique |-> is_unique]
    ELSE LET next == to_uppercase(Head(iter))
             fresh == ~is_primary /\ ~is_unique
         IN IF next = kwPRIMARY /\ fresh THEN modifiers_FirstOnly(Tail(iter), TRUE, is_unique)
            ELSE IF next = kwUNIQUE /\ fresh THEN modifiers_FirstOnly(Tail(iter), is_primary, TRUE)
            ELSE IF next = Comma \/ next = RParen
            THEN [iter |-> iter, is_primary |-> is_primary, is_unique |-> is_unique]
            ELSE modifiers_FirstOnly(Tail(iter), is_primary, is_unique)

\* Lines 105-120: the modifiers of one column; the iterator stops in front of
\* the next `,` or `)` or at the end of the tokens.
RECURSIVE modifiers(_, _, _)
modifiers(iter, is_primary, is_unique) ==
    IF iter = <<>>
    THEN [iter |-> iter, is_primary |-> is_primary, is_unique |-> is_unique]
    ELSE LET next == to_uppercase(Head(iter))
         IN IF next = kwPRIMARY THEN modifiers(Tail(iter), TRUE, is_unique)
            ELSE IF next = kwUNIQUE THEN modifiers(Tail(iter), is_primary, TRUE)
            ELSE IF next = Comma \/ next = RParen
            THEN [iter |-> iter, is_primary |-> is_primary, is_unique |-> is_unique]
            ELSE modifiers(Tail(iter), is_primary, is_unique)

\* Faulty variant: a column name at the end of the tokens gets an empty type.
RECURSIVE create_columns_DefaultType(_, _)
create_columns_DefaultType(iter, columns) ==
    IF iter = <<>> THEN [ok |-> TRUE, columns |-> columns]
    ELSE IF Head(iter) = RParen THEN [ok |-> TRUE, columns |-> columns]
    ELSE IF Head(iter) = Comma THEN create_columns_DefaultType(Tail(iter), columns)
    ELSE IF Len(iter) < 2
    THEN [ok |-> TRUE,
          columns |-> Append(columns, ColumnDefinition(Head(iter), <<>>, FALSE, FALSE))]
    ELSE LET m == modifiers(Tail(Tail(iter)), FALSE, FALSE)
         IN create_columns_DefaultType(m.iter,
                Append(columns, ColumnDefinition(Head(iter), to_uppercase(iter[2]),
                                                 m.is_primary, m.is_unique)))

\* Lines 91-128: the loop over the column definitions.  It ends at `)` and
\* at the end of the tokens alike; ok is FALSE when the tokens end where a
\* column type is expected.
RECURSIVE create_columns(_, _)
create_columns(iter, columns) ==
    IF iter = <<>> THEN [ok |-> TRUE, columns |-> columns]
    ELSE IF Head(iter) = RParen THEN [ok |-> TRUE, columns |-> columns]
    ELSE IF Head(iter) = Comma THEN create_columns(Tail(iter), columns)
    ELSE IF Len(iter) < 2 THEN [ok |-> FALSE, columns |-> columns]
    ELSE LET m == modifiers(Tail(Tail(iter)), FALSE, FALSE)
         IN create_columns(m.iter,
                Append(columns, ColumnDefinition(Head(iter), to_uppercase(iter[2]),
                                                 m.is_primary, m.is_unique)))

\* Lines 77-131; iter holds the tokens after the command.
parse_create(iter) ==
    IF iter = <<>> \/ to_uppercase(iter[1]) # kwTABLE
    THEN ParseErr("Expected TABLE after CREATE", <<>>)
    ELSE IF Len(iter) < 2 THEN ParseErr("Expected table name", <<>>)
    ELSE IF Len(iter) < 3 \/ iter[3] # LParen THEN ParseErr("Expected '('", <<>>)
    ELSE LET r == create_columns(SubSeq(iter, 4, Len(iter)), <<>>)
         IN IF r.ok THEN Ok(CreateTable(iter[2], r.columns))
            ELSE ParseErr("Expected column type", <<>>)

Digits == <<"0", "1", "2", "3", "4", "5", "6", "7", "8", "9">>

i32_MAX == 2147483647
i32_MIN == (-2147483647) - 1

DigitValue(c) == (CHOOSE i \in 1..10 : Digits[i] = c) - 1

\* The digits of an i32 folded from the left: positive numbers by adding,
\* negative ones by subtracting, <<>> on overflow.
RECURSIVE fold_digits(_, _, _)
fold_digits(ds, acc, negative) ==
    IF ds = <<>> THEN <<acc>>
    ELSE LET d == DigitValue(Head(ds))
         IN IF negative
            THEN IF acc < (i32_MIN + d + 9) \div 10 THEN <<>>
                 ELSE fold_digits(Tail(ds), acc * 10 - d, negative)
            ELSE IF acc > (i32_MAX - d) \div 10 THEN <<>>
                 ELSE fold_digits(Tail(ds), acc * 10 + d, negative)

\* str::parse::<i32>: an optional sign and at least one digit, nothing else,
\* within the range of i32; <<n>> for Ok(n), <<>> for Err.
parse_i32(token) ==
    LET signed == token # <<>> /\ token[1] \in {"+", "-"}
        ds == IF signed THEN Tail(token) ELSE token
    IN IF ds = <<>> \/ \E i \in 1..Len(ds) : ds[i] \notin Range(Digits)
       THEN <<>>
       ELSE fold_digits(ds, 0, signed /\ token[1] = "-")

\* Faulty variant: one pair of surrounding occurrences goes, if there is one.
trim_matches_OnePair(s, c) ==
    IF Len(s) >= 2 /\ s[1] = c /\ s[Len(s)] = c THEN SubSeq(s, 2, Len(s) - 1) ELSE s

\* str::trim_matches(char): every leading and every trailing occurrence goes.
trim_matches(s, c) ==
    LET keep == { i \in 1..Len(s) : s[i] # c }
    IN IF keep = {} THEN <<>> ELSE SubSeq(s, Min(keep), Max(keep))

\* Lines 160-173: the loop over the values.
RECURSIVE insert_values(_, _)
insert_values(iter, values) ==
    IF iter = <<>> THEN values
    ELSE IF Head(iter) = RParen THEN values
    ELSE IF Head(iter) = Comma THEN insert_values(Tail(iter), values)
    ELSE LET num == parse_i32(Head(iter))
         IN insert_values(Tail(iter),
                Append(values, IF num # <<>> THEN Integer(num[1])
                               ELSE Text(trim_matches(Head(iter), "'"))))

\* Lines 143-179.
parse_insert(iter) ==
    IF iter = <<>> \/ to_uppercase(iter[1]) # kwINTO
    THEN ParseErr("Expected INTO after CREATE", <<>>)
    ELSE IF Len(iter) < 2 THEN ParseErr("Expected table name", <<>>)
    ELSE IF Len(iter) < 3 \/ to_uppercase(iter[3]) # kwVALUES
    THEN ParseErr("Expected VALUES after INTO", <<>>)
    ELSE IF Len(iter) < 4 \/ iter[4] # LParen THEN ParseErr("Expected '('", <<>>)
    ELSE Ok(Insert(iter[2], insert_values(SubSeq(iter, 5, Len(iter)), <<>>)))

\* Lines 197-205: the names up to FROM; iter is what follows FROM.
RECURSIVE select_columns(_, _)
select_columns(iter, columns) ==
    IF iter = <<>> THEN [iter |-> iter, columns |-> columns]
    ELSE IF to_uppercase(Head(iter)) = kwFROM
    THEN [iter |-> Tail(iter), columns |-> columns]
    ELSE select_columns(Tail(iter),
             IF Head(iter) # Comma THEN Append(columns, Head(iter)) ELSE columns)

\* Faulty variant: the join clause is read without skipping a token between
\* the join table, the left column and the right column.
parse_select_NoSkip(iter) ==
    LET c == select_columns(iter, <<>>)
        rest == c.iter
    IN IF rest = <<>> THEN ParseErr("Expected table name", <<>>)
       ELSE IF Len(rest) < 2 THEN Ok(Select(rest[1], c.columns, <<>>))
       ELSE IF Len(rest) < 3 THEN ParseErr("Expected join table", <<>>)
       ELSE IF Len(rest) < 4 THEN ParseErr("Expected left col", <<>>)
       ELSE IF Len(rest) < 5 THEN ParseErr("Expected right col", <<>>)
       ELSE Ok(Select(rest[1], c.columns,
                      <<JoinDefinition(rest[3], rest[4], rest[5])>>))

\* Lines 194-229: after the table name any further token starts a join
\* clause: join table, one skipped token, left column, one skipped token,
\* right column.
parse_select(iter) ==
    LET c == select_columns(iter, <<>>)
        rest == c.iter
    IN IF rest = <<>> THEN ParseErr("Expected table name", <<>>)
       ELSE IF Len(rest) < 2 THEN Ok(Select(rest[1], c.columns, <<>>))
       ELSE IF Len(rest) < 3 THEN ParseErr("Expected join table", <<>>)
       ELSE IF Len(rest) < 5 THEN ParseErr("Expected left col", <<>>)
       ELSE IF Len(rest) < 7 THEN ParseErr("Expected right col", <<>>)
       ELSE Ok(Select(rest[1], c.columns,
                      <<JoinDefinition(rest[3], rest[5], rest[7])>>))

\* Faulty variant: the command is compared as written.
parse_CaseSensitive(input) ==
    LET toks == tokenize(input)
    IN IF toks = <<>> THEN ParseErr("Empty query", <<>>)
       ELSE LET command == toks[1]
            IN CASE command = kwCREATE -> parse_create(Tail(toks))
                 [] command = kwINSERT -> parse_insert(Tail(toks))
                 [] command = kwSELECT -> parse_select(Tail(toks))
                 [] OTHER -> ParseErr("Unknown command: {}", to_uppercase(command))

\* Lines 50-65.
parse(input) ==
    LET toks == tokenize(input)
    IN IF toks = <<>> THEN ParseErr("Empty query", <<>>)
       ELSE LET command == to_uppercase(toks[1])
            IN CASE command = kwCREATE -> parse_create(Tail(toks))
                 [] command = kwINSERT -> parse_insert(Tail(toks))
                 [] command = kwSELECT -> parse_select(Tail(toks))
                 [] OTHER -> ParseErr("Unknown command: {}", command)

\* The texts parse is called with: every text of up to MaxLen characters
\* over a small alphabet; heads of CREATE and INSERT statements, right and
\* wrong, of up to MaxWords words; CREATE TABLE statements with every column
\* list of up to MaxBody tokens; SELECT statements; and the statements of
\* the repository's tests and documentation; texts with every white-space
\* character and with characters outside ASCII.
Alphabet == {"(", ")", ",", " ", "\n", "a", "B"}
Texts == SeqsUpTo(Alphabet, MaxLen)

RECURSIVE Join(_)
Join(words) ==
    IF words = <<>> THEN <<>>
    ELSE IF Len(words) = 1 THEN words[1]
    ELSE words[1] \o <<" ">> \o Join(Tail(words))

HeadVocab == { <<"c", "r", "e", "a", "t", "e">>, kwINSERT, <<"t", "a", "b", "l", "e">>, kwINTO, <<"v", "a", "l", "u", "e", "s">>, <<"t">>, LParen }
HeadTexts == { Join(ws) : ws \in SeqsUpTo(HeadVocab, MaxWords) }

BodyVocab == { <<"x">>, kwPRIMARY, <<"u", "n", "i", "q", "u", "e">>, Comma, RParen }
CreateTexts ==
    { Join(<<kwCREATE, <<"T", "a", "b", "l", "e">>, <<"t">>, LParen>> \o body) :
        body \in SeqsUpTo(BodyVocab, MaxBody) }

SelectVocab == { <<"a">>, <<"*">>, Comma, <<"f", "r", "o", "m">>, <<"t">> }
SelectTexts ==
    { Join(<<<<"S", "e", "l", "e", "c", "t">>>> \o ws) : ws \in SeqsUpTo(SelectVocab, MaxWords) }

Samples ==
    { <<"C", "R", "E", "A", "T", "E", " ", "T", "A", "B", "L", "E", " ", "t", " ", "(", "i", "d", " ", "I", "N", "T", " ", "P", "R", "I", "M", "A", "R", "Y", ",", " ", "n", "a", "m", "e", " ", "T", "E", "X", "T", ")">>,
      <<"C", "R", "E", "A", "T", "E", " ", "T", "A", "B", "L", "E", " ", "u", "s", "e", "r", "s", " ", "(", "i", "d", " ", "I", "N", "T", " ", "P", "R", "I", "M", "A", "R", "Y", ",", " ", "n", "a", "m", "e", " ", "T", "E", "X", "T", ")">>,
      <<"c", "r", "e", "a", "t", "e", " ", "t", "a", "b", "l", "e", " ", "t", " ", "(", "i", "d", " ", "i", "n", "t", " ", "u", "n", "i", "q", "u", "e", " ", "p", "r", "i", "m", "a", "r", "y", " ", "p", "r", "i", "m", "a", "r", "y", ",", " ", "n", "a", "m", "e", " ", "t", "e", "x", "t", " ", "n", "o", "t", " ", "n", "u", "l", "l", ")">>,
      <<"C", "R", "E", "A", "T", "E", " ", "T", "A", "B", "L", "E", " ", "t", " ", "(", "i", "d", " ", "I", "N", "T">>,
      <<"I", "N", "S", "E", "R", "T", " ", "I", "N", "T", "O", " ", "t", " ", "V", "A", "L", "U", "E", "S", " ", "(", "1", ",", " ", "'", "M", "a", "r", "t", "i", "n", "'", ")">>,
      <<"S", "E", "L", "E", "C", "T", " ", "a", ",", " ", "b", " ", "F", "R", "O", "M", " ", "t", " ", "J", "O", "I", "N", " ", "u", " ", "O", "N", " ", "a", " ", "=", " ", "b">>,
      <<"S", "E", "L", "E", "C", "T", "(", "a", ",", "b", ")">>,
      <<"d", "r", "o", "p", " ", "t", "a", "b", "l", "e", " ", "t">> }

\* INSERT statements whose value list is any text over quote, digit, sign,
\* letter and comma, and the ones at the limits of i32.
ValueAlphabet == {"'", "1", "-", "a", ","}
InsertHeadText == Join(<<kwINSERT, kwINTO, <<"t">>, kwVALUES, LParen>>)
InsertTexts ==
    { InsertHeadText \o vs \o RParen : vs \in SeqsUpTo(ValueAlphabet, MaxChars) }
    \cup { <<"I", "N", "S", "E", "R", "T", " ", "I", "N", "T", "O", " ", "t", " ", "V", "A", "L", "U", "E", "S", " ", "(", "2", "1", "4", "7", "4", "8", "3", "6", "4", "7", ",", " ", "2", "1", "4", "7", "4", "8", "3", "6", "4", "8", ",", " ", "-", "2", "1", "4", "7", "4", "8", "3", "6", "4", "8", ",", " ", "-", "2", "1", "4", "7", "4", "8", "3", "6", "4", "9", ")">>,
           <<"i", "n", "s", "e", "r", "t", " ", "i", "n", "t", "o", " ", "t", " ", "v", "a", "l", "u", "e", "s", " ", "(", "+", "7", ",", " ", "0", "0", "7", ",", " ", "-", ",", " ", "+", ",", " ", "1", "a", ",", " ", "-", "0", ",", " ", "0", "0", "0", "0", "0", "0", "0", "0", "0", "0", "1", ",", " ", "9", "9", "9", "9", "9", "9", "9", "9", "9", "9", "9", ")">> }

\* SELECT statements with every tail of up to MaxTail tokens after FROM.
TailVocab == { <<"t">>, <<"a">>, Comma }
JoinTexts ==
    { Join(<<kwSELECT, <<"*">>, kwFROM>> \o ws) : ws \in SeqsUpTo(TailVocab, MaxTail) }

\* Texts with each white-space character: alone, between two words, and in
\* the place of the blanks of a SELECT.
WhiteTexts ==
    { <<w>> : w \in WhiteSpace }
    \cup { <<"a", w, "(", w, w, "b">> : w \in WhiteSpace }
    \cup { kwSELECT \o <<w, "*", w>> \o kwFROM \o <<w, "t">> : w \in WhiteSpace }

\* Texts with characters outside ASCII: each character of SpecialUpper as
\* a command and as a column modifier, and statements whose keywords are
\* written with the dotless i and the long s.
CaseTexts ==
    { <<m[1]>> : m \in SpecialUpper }
    \cup { <<"s", "t", "r", "a", m[1], "e", " ", "t">> : m \in SpecialUpper }
    \cup { Join(<<kwCREATE, kwTABLE, <<"t">>, LParen, <<"a">>, <<"i", "n", m[1]>>,
                  <<"p", "r", m[1], "m", "a", "r", "y">>, <<"u", "n", m[1], "q", "u", "e">>,
                  RParen>>) : m \in SpecialUpper }
    \cup { Join(<<<<"U+0131", "n", "s", "e", "r", "t">>, <<"U+0131", "n", "t", "o">>, <<"t">>,
                  <<"v", "a", "l", "u", "e", "U+017F">>, LParen, <<"1">>, RParen>>),
           Join(<<<<"U+017F", "e", "l", "e", "c", "t">>, <<"a">>, <<"f", "r", "o", "m">>, <<"t">>>>),
           Join(<<<<"s", "e", "l", "e", "c", "t">>, <<"a">>, <<"f", "r", "o", "m">>, <<"t">>>>),
           Join(<<<<"c", "r", "e", "a", "t", "e">>, <<"t", "a", "b", "l", "e">>, <<"U+00E9">>, LParen,
                  <<"U+00E9">>, <<"U+00B5">>, RParen>>) }

Inputs ==
    Texts \cup HeadTexts \cup CreateTexts \cup SelectTexts \cup JoinTexts
          \cup InsertTexts \cup Samples \cup WhiteTexts \cup CaseTexts

(***************************************************************************)
(* The front ends (src/src/bin/web.rs, src/src/bin/repl.rs): what they are *)
(* sent and what they keep.                                                *)
(***************************************************************************)
\* The web server's handlers that may run at once.
Handlers == {1, 2}

\* The texts a front end is sent.
Requests ==
    { <<"C", "R", "E", "A", "T", "E", " ", "T", "A", "B", "L", "E", " ", "t", " ", "(", "a", " ", "I", "N", "T", " ", "P", "R", "I", "M", "A", "R", "Y", ")">>,
      <<"I", "N", "S", "E", "R", "T", " ", "I", "N", "T", "O", " ", "t", " ", "V", "A", "L", "U", "E", "S", " ", "(", "1", ")">>,
      <<"I", "N", "S", "E", "R", "T", " ", "I", "N", "T", "O", " ", "t", " ", "V", "A", "L", "U", "E", "S", " ", "(", "'", "x", "'", ")">>,
      <<"I", "N", "S", "E", "R", "T", " ", "I", "N", "T", "O", " ", "u", " ", "V", "A", "L", "U", "E", "S", " ", "(", "1", ")">>,
      <<"S", "E", "L", "E", "C", "T", " ", "*", " ", "F", "R", "O", "M", " ", "t">>,
      <<"D", "R", "O", "P", " ", "T", "A", "B", "L", "E", " ", "t">>,
      <<"C", "R", "E", "A", "T", "E", " ", "T", "A", "B", "L", "E", " ", "U+00E9", " ", "(", "a", " ", "I", "N", "T", ")">> }

\* Faulty variant: only CREATE TABLE counts as a mutation.
is_mutation_CreateOnly(statement) == statement.kind = "CreateTable"

\* matches!(stmt, CreateTable { .. } | Insert { .. })
is_mutation(statement) == statement.kind \in {"CreateTable", "Insert"}

\* A handler between two requests.
IdleReq == [pc |-> "idle", sql |-> <<>>, parsed |-> <<>>, result |-> <<>>, save |-> "none"]

\* One request run on its own: parse, then execute if there is a Statement.
RunAlone(tables, sql) ==
    LET p == parse(sql)
    IN IF p.tag = "Ok" THEN execute(tables, p.stmt).db ELSE tables

\* str::trim: the white space at both ends goes.
trim(s) ==
    LET keep == { i \in 1..Len(s) : ~is_whitespace(s[i]) }
    IN IF keep = {} THEN <<>> ELSE SubSeq(s, Min(keep), Max(keep))

kwExit == <<"e", "x", "i", "t">>

\* The lines the REPL reads: the texts above, one of them between blanks,
\* and exit, bare and between blanks.
Lines ==
    Requests
    \cup { <<" ", "\t">> \o <<"S", "E", "L", "E", "C", "T", " ", "*", " ", "F", "R", "O", "M", " ", "t">> \o <<" ">>,
           kwExit,
           <<" ">> \o kwExit \o <<"U+00A0">> }

\* The characters of the model outside ASCII: in UTF-8 each takes more
\* than one byte.
NonAscii ==
    { m[1] : m \in SpecialUpper }
    \cup { "U+02BC", "U+030C", "U+0331", "U+0308", "U+030A", "U+02BE", "U+00C9", "U+039C" }
    \cup (WhiteSpace \ {"\t", "\n", "", "\f", "\r", " "})

HasNonAscii(s) == \E i \in 1..Len(s) : s[i] \in NonAscii

\* The snapshot of these tables has a character of more than one byte: in
\* a table name, a column name, a type or a text.
multibyte(tables) ==
    \E n \in DOMAIN tables :
        \/ HasNonAscii(n)
        \/ \E c \in 1..Len(tables[n].columns) :
              \/ HasNonAscii(tables[n].columns[c].name)
              \/ HasNonAscii(tables[n].columns[c].data_type)
        \/ \E r \in 1..Len(tables[n].rows) : \E i \in 1..Len(tables[n].rows[r]) :
              /\ tables[n].rows[r][i].tag = "Text"
              /\ HasNonAscii(tables[n].rows[r][i].text)

\* The Database of an earlier run that created t and inserted a row.
SampleDatabase ==
    RunAlone(RunAlone(Database_new,
                      <<"C", "R", "E", "A", "T", "E", " ", "T", "A", "B", "L", "E", " ", "t", " ", "(", "a", " ", "I", "N", "T", " ", "P", "R", "I", "M", "A", "R", "Y", ")">>),
             <<"I", "N", "S", "E", "R", "T", " ", "I", "N", "T", "O", " ", "t", " ", "V", "A", "L", "U", "E", "S", " ", "(", "1", ")">>)

\* database.json as a front end may find it when it starts: absent, left by
\* an earlier run (readable and writable, write-only, read-only), text that
\* is not a Database, bytes that are not UTF-8, a directory.
InitialFiles ==
    { NoFile,
      Written(SampleDatabase, TRUE, TRUE), Written(SampleDatabase, FALSE, TRUE),
      Written(SampleDatabase, TRUE, FALSE),
      Broken(TRUE, TRUE), NotUtf8(TRUE, TRUE), Directory(TRUE) }

(***************************************************************************)
(* The REPL on Statements (src/src/bin/repl.rs).  A call of execute runs   *)
(* on db (and, in step, on inc); Return is main consuming the result and   *)
(* saving after a CreateTable or an Insert that succeeded; Reload is the   *)
(* process ending and starting again from database.json.                   *)
(***************************************************************************)
Idle == stmt = NoStmt

\* main has not returned.
Running == reqs[1].pc # "exited"

Call(s) ==
    /\ Idle
    /\ Running
    /\ stmt' = s
    /\ prev' = db
    /\ LET out == execute(db, s)
       IN /\ db' = out.db
          /\ res' = out.res
    /\ LET out == execute(inc, s)
       IN /\ inc' = out.db
          /\ incRes' = out.res
    /\ justLoaded' = (justLoaded /\ s.kind = "Insert")
    /\ UNCHANGED saved
    /\ UNCHANGED parserVars
    /\ UNCHANGED frontVars

ExecCreateTable ==
    \E n \in TableNames, cols \in Schemas : Call(CreateTable(n, cols))

\* MaxRows caps the growth of the Database, not the calls that are refused.
ExecInsert ==
    \E n \in TableNames, row \in RowInputs :
        /\ Call(Insert(n, row))
        /\ TotalRows(db') <= MaxRows

ExecSelect ==
    \E n \in TableNames, cols \in SelLists : Call(Select(n, cols, <<>>))

ExecSelectJoin ==
    \E n \in TableNames, cols \in JoinSelLists, j \in Joins : Call(Select(n, cols, j))

\* repl.rs lines 38-61: the result is printed; after a CreateTable or an
\* Insert that succeeded save_to_disk is called, and its error ends main.
\* The names and texts of the Statements here are ASCII, so the snapshot
\* has no character of more than one byte.
Return ==
    /\ ~Idle
    /\ stmt' = NoStmt
    /\ res' = NoRes
    /\ incRes' = NoRes
    /\ prev' = db
    /\ justLoaded' = FALSE
    /\ IF IsOk(res) /\ is_mutation(stmt)
       THEN \E umask \in Umasks, fault \in SaveFaults(disk, FALSE) :
               LET out == save_to_disk(db, disk, umask, fault)
               IN /\ disk' = out.file
                  /\ saved' = IF out.res.tag = "Ok" THEN inc ELSE saved
                  /\ reqs' = IF out.res.tag = "Ok" THEN reqs
                             ELSE [reqs EXCEPT ![1].pc = "exited"]
       ELSE UNCHANGED <<disk, saved, reqs>>
    /\ UNCHANGED <<db, inc>>
    /\ UNCHANGED parserVars
    /\ UNCHANGED <<frontEnd, lock, arrived, serial, lastSave>>

\* The process has ended (exit, end of input, or the error of a save) and
\* starts again: repl.rs lines 10-13.  inc follows as the Database the
\* file was written from.
Reload ==
    /\ Idle
    /\ db' = load_or_new(disk)
    /\ inc' = IF load_from_disk(disk).tag = "Ok" /\ disk.bytes = "database"
              THEN saved ELSE Database_new
    /\ prev' = db'
    /\ justLoaded' = TRUE
    /\ reqs' = [r \in Handlers |-> IdleReq]
    /\ UNCHANGED <<stmt, res, incRes, saved>>
    /\ UNCHANGED parserVars
    /\ UNCHANGED <<frontEnd, lock, disk, arrived, serial, lastSave>>

Init ==
    /\ frontEnd = "repl"
    /\ lock = 0
    /\ reqs = [r \in Handlers |-> IdleReq]
    /\ disk = NoFile
    /\ arrived = 0
    /\ serial = Database_new
    /\ lastSave = <<>>
    /\ saved = Database_new
    /\ db = load_or_new(disk)
    /\ inc = Database_new
    /\ prev = Database_new
    /\ stmt = NoStmt
    /\ res = NoRes
    /\ incRes = NoRes
    /\ justLoaded = FALSE
    /\ query = <<>>
    /\ tokens = <<>>
    /\ parsed = <<>>

Next ==
    \/ ExecCreateTable
    \/ ExecInsert
    \/ ExecSelect
    \/ ExecSelectJoin
    \/ Return
    \/ Reload

Spec == Init /\ [][Next]_vars

(***************************************************************************)
(* The parser on its own: parse is called once on a text.                  *)
(***************************************************************************)
Parse ==
    /\ parsed = <<>>
    /\ tokens' = <<tokenize(query)>>
    /\ parsed' = <<parse(query)>>
    /\ UNCHANGED query
    /\ UNCHANGED engineVars
    /\ UNCHANGED frontVars

ParserInit ==
    /\ db = Database_new
    /\ inc = Database_new
    /\ prev = Database_new
    /\ stmt = NoStmt
    /\ res = NoRes
    /\ incRes = NoRes
    /\ justLoaded = FALSE
    /\ query \in Inputs
    /\ tokens = <<>>
    /\ parsed = <<>>
    /\ saved = Database_new
    /\ frontEnd = "none"
    /\ lock = 0
    /\ reqs = [r \in Handlers |-> IdleReq]
    /\ disk = NoFile
    /\ arrived = 0
    /\ serial = Database_new
    /\ lastSave = <<>>

ParserNext == Parse

ParserSpec == ParserInit /\ [][ParserNext]_vars

(***************************************************************************)
(* The front ends on texts.  In the web server every handler takes the     *)
(* write lock first and gives it back when it returns; the REPL handles    *)
(* one line at a time and has no lock.  Both load database.json when they  *)
(* start, parse, execute, and save after a successful CreateTable or       *)
(* Insert.                                                                 *)
(***************************************************************************)
restVars == <<inc, prev, stmt, res, incRes, justLoaded, query, tokens, parsed, saved>>

\* Faulty variant: the guard is shared, as a read lock would be.
CanAcquire_Shared == TRUE

\* RwLock::write returns when no other guard is held.
CanAcquire == lock = 0

\* A request reaches the web server; its handler has not run yet.
WebArrive(r, sql) ==
    /\ frontEnd = "web"
    /\ reqs[r].pc = "idle"
    /\ arrived < MaxRequests
    /\ arrived' = arrived + 1
    /\ reqs' = [reqs EXCEPT ![r] = [IdleReq EXCEPT !.pc = "waiting", !.sql = sql]]
    /\ UNCHANGED <<db, frontEnd, lock, disk, serial, lastSave>>
    /\ UNCHANGED restVars

\* web.rs line 60.
WebAcquire(r) ==
    /\ frontEnd = "web"
    /\ reqs[r].pc = "waiting"
    /\ CanAcquire
    /\ lock' = r
    /\ reqs' = [reqs EXCEPT ![r].pc = "running"]
    /\ serial' = RunAlone(serial, reqs[r].sql)
    /\ UNCHANGED <<db, frontEnd, disk, arrived, lastSave>>
    /\ UNCHANGED restVars

\* repl.rs lines 20-27: a line is read and trimmed; exit ends the loop and
\* main, any other line goes to parse.
ReplRead(line) ==
    /\ frontEnd = "repl"
    /\ reqs[1].pc = "idle"
    /\ arrived < MaxRequests
    /\ arrived' = arrived + 1
    /\ LET trimmed == trim(line)
       IN IF trimmed = kwExit
          THEN /\ reqs' = [reqs EXCEPT ![1] = [IdleReq EXCEPT !.pc = "exited"]]
               /\ serial' = serial
          ELSE /\ reqs' = [reqs EXCEPT ![1] = [IdleReq EXCEPT !.pc = "running", !.sql = trimmed]]
               /\ serial' = RunAlone(serial, trimmed)
    /\ UNCHANGED <<db, frontEnd, lock, disk, lastSave>>
    /\ UNCHANGED restVars

\* repl.rs line 67: readline returns Interrupted or Eof, the loop and main
\* end.  On any other error of readline (line 68) the loop goes on as it is.
ReplBreak ==
    /\ frontEnd = "repl"
    /\ reqs[1].pc = "idle"
    /\ reqs' = [reqs EXCEPT ![1].pc = "exited"]
    /\ UNCHANGED <<db, frontEnd, lock, disk, arrived, serial, lastSave>>
    /\ UNCHANGED restVars

\* web.rs line 62, repl.rs line 28; a syntax error goes straight to the answer.
ParseStep(r) ==
    /\ reqs[r].pc = "running"
    /\ LET p == parse(reqs[r].sql)
       IN reqs' = [reqs EXCEPT ![r].parsed = <<p>>,
                               ![r].pc = IF p.tag = "Ok" THEN "parsed" ELSE "responding"]
    /\ UNCHANGED <<db, frontEnd, lock, disk, arrived, serial, lastSave>>
    /\ UNCHANGED restVars

\* web.rs line 70, repl.rs line 37.
ExecuteStep(r) ==
    /\ reqs[r].pc = "parsed"
    /\ LET out == execute(db, reqs[r].parsed[1].stmt)
       IN /\ db' = out.db
          /\ reqs' = [reqs EXCEPT ![r].result = <<out.res>>, ![r].pc = "executed"]
    /\ UNCHANGED <<frontEnd, lock, disk, arrived, serial, lastSave>>
    /\ UNCHANGED restVars

\* web.rs lines 72-74, repl.rs lines 56-58: save_to_disk is called.  The
\* web server ignores its error; in the REPL the error ends main.
SaveStep(r) ==
    /\ reqs[r].pc = "executed"
    /\ IsOk(reqs[r].result[1])
    /\ is_mutation(reqs[r].parsed[1].stmt)
    /\ \E umask \in Umasks, fault \in SaveFaults(disk, multibyte(db)) :
          LET out == save_to_disk(db, disk, umask, fault)
          IN /\ disk' = out.file
             /\ lastSave' = <<out.res>>
             /\ reqs' = [reqs EXCEPT ![r].save = "invoked",
                                     ![r].pc = IF out.res.tag # "Ok" /\ frontEnd = "repl"
                                               THEN "exited" ELSE "responding"]
    /\ UNCHANGED <<db, frontEnd, lock, arrived, serial>>
    /\ UNCHANGED restVars

\* The statement is a Select or execute failed: nothing is saved.
NoSave(r) ==
    /\ reqs[r].pc = "executed"
    /\ ~(IsOk(reqs[r].result[1]) /\ is_mutation(reqs[r].parsed[1].stmt))
    /\ reqs' = [reqs EXCEPT ![r].pc = "responding"]
    /\ UNCHANGED <<db, frontEnd, lock, disk, arrived, serial, lastSave>>
    /\ UNCHANGED restVars

\* The handler returns (the guard is dropped) or the loop starts over.
Respond(r) ==
    /\ reqs[r].pc = "responding"
    /\ reqs' = [reqs EXCEPT ![r] = IdleReq]
    /\ lock' = IF frontEnd = "web" THEN 0 ELSE lock
    /\ UNCHANGED <<db, frontEnd, disk, arrived, serial, lastSave>>
    /\ UNCHANGED restVars

\* The process has ended, the REPL by leaving main and the web server by
\* being stopped between requests, and starts again: web.rs line 39,
\* repl.rs lines 10-13.
Restart ==
    /\ \A r \in Handlers : reqs[r].pc \in {"idle", "exited"}
    /\ db' = load_or_new(disk)
    /\ serial' = db'
    /\ reqs' = [r \in Handlers |-> IdleReq]
    /\ lock' = 0
    /\ lastSave' = <<>>
    /\ UNCHANGED <<frontEnd, disk, arrived>>
    /\ UNCHANGED restVars

FrontInit ==
    /\ inc = Database_new
    /\ prev = Database_new
    /\ stmt = NoStmt
    /\ res = NoRes
    /\ incRes = NoRes
    /\ justLoaded = FALSE
    /\ query = <<>>
    /\ tokens = <<>>
    /\ parsed = <<>>
    /\ saved = Database_new
    /\ frontEnd \in {"web", "repl"}
    /\ lock = 0
    /\ reqs = [r \in Handlers |-> IdleReq]
    /\ disk \in InitialFiles
    /\ db = load_or_new(disk)
    /\ arrived = 0
    /\ serial = db
    /\ lastSave = <<>>

FrontNext ==
    \/ \E r \in Handlers, sql \in Requests : WebArrive(r, sql)
    \/ \E r \in Handlers : WebAcquire(r)
    \/ \E line \in Lines : ReplRead(line)
    \/ ReplBreak
    \/ \E r \in Handlers : ParseStep(r)
    \/ \E r \in Handlers : ExecuteStep(r)
    \/ \E r \in Handlers : SaveStep(r)
    \/ \E r \in Handlers : NoSave(r)
    \/ \E r \in Handlers : Respond(r)
    \/ Restart

FrontSpec == FrontInit /\ [][FrontNext]_vars

(***************************************************************************)
(* Properties.  After a call of execute, prev is the Database the call     *)
(* found, stmt the statement, res the result and db the Database it left.  *)
(***************************************************************************)
\* The positions of a table whose column is flagged primary or unique.
Flagged(t) ==
    { i \in 1..Len(t.columns) : t.columns[i].is_primary \/ t.columns[i].is_unique }

\* The distinct values the rows of a table hold at a position.
ColumnValues(t, i) == { t.rows[r][i] : r \in DOMAIN t.rows }

ColumnNameSet(t) == { t.columns[i].name : i \in 1..Len(t.columns) }

\* The flagged positions at which a row repeats a value of the table.
Dup(t, row) ==
    { i \in Flagged(t) : i <= Len(row) /\ row[i] \in ColumnValues(t, i) }

\* The first position of a table whose column has the name.
FirstPos(t, name) ==
    CHOOSE i \in 1..Len(t.columns) :
        /\ t.columns[i].name = name
        /\ \A j \in 1..(i - 1) : t.columns[j].name # name

\* C1: every table has an index at exactly the positions of its primary or
\* unique columns, and each index is the set of distinct values the rows
\* hold at that position.
C1_IndexIsColumnValues ==
    \A n \in DOMAIN db :
        /\ DOMAIN db[n].indexes = Flagged(db[n])
        /\ \A i \in Flagged(db[n]) : db[n].indexes[i] = ColumnValues(db[n], i)

C1_Witness ==
    /\ stmt.kind = "Insert"
    /\ res.tag = "UniqueViolation"
    /\ stmt.table_name \in DOMAIN db
    /\ LET t == db[stmt.table_name]
       IN /\ Len(t.rows) = 2
          /\ Flagged(t) # {}
          /\ \E i \in 1..Len(t.columns) : i \notin Flagged(t) /\ t.rows[1][i] = t.rows[2][i]

\* C2: no two distinct rows of a table hold equal values at the position of
\* a primary or unique column.
C2_NoDuplicateInFlaggedColumn ==
    \A n \in DOMAIN db :
        \A i \in Flagged(db[n]) :
            \A r1, r2 \in DOMAIN db[n].rows :
                r1 # r2 => db[n].rows[r1][i] # db[n].rows[r2][i]

C2_Witness ==
    \E n \in DOMAIN db :
        /\ Len(db[n].rows) = 2
        /\ Flagged(db[n]) = {1, 2}
        /\ db[n].columns[1].is_primary
        /\ db[n].columns[2].is_unique

\* C3: an Insert of a correctly sized row that repeats a value of a primary
\* or unique column fails with UniqueViolation naming the lowest such
\* column, and leaves rows and indexes of the Database as they were.
C3_DuplicateInsertRejected ==
    (/\ stmt.kind = "Insert"
     /\ stmt.table_name \in DOMAIN prev
     /\ Len(stmt.values) = Len(prev[stmt.table_name].columns)
     /\ Dup(prev[stmt.table_name], stmt.values) # {})
    => LET t == prev[stmt.table_name]
       IN /\ res = UniqueViolation(t.columns[Min(Dup(t, stmt.values))].name)
          /\ db = prev

C3_Witness ==
    /\ stmt.kind = "Insert"
    /\ res.tag = "UniqueViolation"
    /\ stmt.table_name \in DOMAIN prev
    /\ Flagged(prev[stmt.table_name]) = {1, 2}
    /\ Dup(prev[stmt.table_name], stmt.values) = {2}
    /\ stmt.values[1] \notin db[stmt.table_name].indexes[1]

\* C4: a CreateTable of a name the Database already has fails with
\* TableAlreadyExists naming it, whatever the columns given, and the
\* existing table is unchanged.
C4_DuplicateCreateRejected ==
    (stmt.kind = "CreateTable" /\ stmt.name \in DOMAIN prev)
    => (res = TableAlreadyExists(stmt.name) /\ db = prev)

C4_Witness ==
    /\ stmt.kind = "CreateTable"
    /\ res.tag = "TableAlreadyExists"
    /\ stmt.name \in DOMAIN db
    /\ db[stmt.name].rows # <<>>
    /\ stmt.columns # db[stmt.name].columns

\* C5: a call of execute that returns an error, and any Select, leaves the
\* Database (tables, columns, rows, indexes) as it found it.
C5_ErrorOrSelectLeavesDatabase ==
    (stmt # NoStmt /\ (IsErr(res) \/ stmt.kind = "Select")) => db = prev

C5_Witness ==
    /\ stmt.kind = "Insert"
    /\ IsErr(res)
    /\ stmt.table_name \in DOMAIN db
    /\ db[stmt.table_name].rows # <<>>
    /\ DOMAIN db = TableNames

\* C6: a Database whose indexes were dropped by the save and rebuilt by
\* load_from_disk equals the one whose indexes were maintained since the
\* tables were created, and every later call returns the same on both.
C6_RebuiltEqualsIncremental ==
    db = inc /\ res = incRes

C6_Witness ==
    /\ justLoaded
    /\ DOMAIN db = TableNames
    /\ stmt.kind = "Insert"
    /\ res.tag = "UniqueViolation"
    /\ Len(db[stmt.table_name].rows) = 2

\* C7: an Insert into an existing table of a row with fewer or more values
\* than the table has columns fails with the column-count-mismatch parse
\* error and changes nothing, also when the row repeats a value of a
\* primary or unique column.
C7_ArityMismatchRejected ==
    (/\ stmt.kind = "Insert"
     /\ stmt.table_name \in DOMAIN prev
     /\ Len(stmt.values) # Len(prev[stmt.table_name].columns))
    => (res = ParseError("Columns count mismatch") /\ db = prev)

C7_Witness ==
    /\ stmt.kind = "Insert"
    /\ res.tag = "ParseError"
    /\ stmt.table_name \in DOMAIN prev
    /\ Len(stmt.values) < Len(prev[stmt.table_name].columns)
    /\ Dup(prev[stmt.table_name], stmt.values) # {}

\* C8: an Insert or Select naming an absent table fails with TableNotFound
\* naming it (the left table when both tables of a join are absent), and a
\* join whose right table alone is absent fails with TableNotFound naming
\* the right table, whatever the column names.
C8_TableNotFound ==
    /\ (stmt.kind \in {"Insert", "Select"} /\ stmt.table_name \notin DOMAIN prev)
       => res = TableNotFound(stmt.table_name)
    /\ (/\ stmt.kind = "Select"
        /\ stmt.table_name \in DOMAIN prev
        /\ stmt.join # <<>>
        /\ stmt.join[1].table_name \notin DOMAIN prev)
       => res = TableNotFound(stmt.join[1].table_name)

C8_Witness ==
    /\ stmt.kind = "Select"
    /\ stmt.join # <<>>
    /\ res.tag = "TableNotFound"
    /\ stmt.table_name \in DOMAIN prev
    /\ stmt.join[1].left_column \notin ColumnNameSet(prev[stmt.table_name])

\* C9: a no-join Select without `*` that names a column the table lacks
\* fails with ColumnNotFound naming the first such name in requested order;
\* a join of two existing tables fails with ColumnNotFound naming the left
\* join column if the left table lacks it, else the right join column if
\* the right table lacks it.
C9_ColumnNotFound ==
    /\ (/\ stmt.kind = "Select"
        /\ stmt.join = <<>>
        /\ stmt.table_name \in DOMAIN prev
        /\ "*" \notin Range(stmt.columns)
        /\ \E k \in 1..Len(stmt.columns) :
              stmt.columns[k] \notin ColumnNameSet(prev[stmt.table_name]))
       => LET k == Min({ j \in 1..Len(stmt.columns) :
                           stmt.columns[j] \notin ColumnNameSet(prev[stmt.table_name]) })
          IN res = ColumnNotFound(stmt.columns[k])
    /\ (/\ stmt.kind = "Select"
        /\ stmt.join # <<>>
        /\ stmt.table_name \in DOMAIN prev
        /\ stmt.join[1].table_name \in DOMAIN prev)
       => LET j == stmt.join[1]
              noLeft == j.left_column \notin ColumnNameSet(prev[stmt.table_name])
              noRight == j.right_column \notin ColumnNameSet(prev[j.table_name])
          IN /\ noLeft => res = ColumnNotFound(j.left_column)
             /\ (~noLeft /\ noRight) => res = ColumnNotFound(j.right_column)

C9_Witness ==
    /\ stmt.kind = "Select"
    /\ stmt.join = <<>>
    /\ res.tag = "ColumnNotFound"
    /\ Len(stmt.columns) = 2
    /\ stmt.columns[1] # stmt.columns[2]
    /\ prev[stmt.table_name].rows # <<>>
    /\ \A k \in 1..2 : stmt.columns[k] \notin ColumnNameSet(prev[stmt.table_name])

\* C10: a no-join Select without `*` whose names all exist returns the
\* requested names as headers, in requested order, and one row per table
\* row, in table order, holding the row's values at the first position of
\* each requested name; Select `*` on a table without rows returns all
\* declared column names, in declaration order, and no rows.
C10_Projection ==
    /\ (/\ stmt.kind = "Select"
        /\ stmt.join = <<>>
        /\ stmt.table_name \in DOMAIN prev
        /\ "*" \notin Range(stmt.columns)
        /\ Range(stmt.columns) \subseteq ColumnNameSet(prev[stmt.table_name]))
       => LET t == prev[stmt.table_name]
          IN /\ res.tag = "Data"
             /\ res.headers = stmt.columns
             /\ Len(res.rows) = Len(t.rows)
             /\ \A r \in 1..Len(t.rows) :
                   /\ Len(res.rows[r]) = Len(stmt.columns)
                   /\ \A k \in 1..Len(stmt.columns) :
                         res.rows[r][k] = t.rows[r][FirstPos(t, stmt.columns[k])]
    /\ (/\ stmt.kind = "Select"
        /\ stmt.join = <<>>
        /\ stmt.table_name \in DOMAIN prev
        /\ stmt.columns = <<"*">>
        /\ prev[stmt.table_name].rows = <<>>)
       => LET t == prev[stmt.table_name]
          IN /\ res.tag = "Data"
             /\ res.headers = [i \in 1..Len(t.columns) |-> t.columns[i].name]
             /\ res.rows = <<>>

C10_Witness ==
    /\ stmt.kind = "Select"
    /\ stmt.join = <<>>
    /\ res.tag = "Data"
    /\ stmt.columns = <<"b", "a">>
    /\ Len(prev[stmt.table_name].rows) = 2
    /\ prev[stmt.table_name].columns[1].name = "a"
    /\ res.rows[1] # res.rows[2]

\* C11: a no-join Select whose column list holds `*` at any position returns
\* the whole row: every column once, in declaration order, as headers and
\* in every row, whatever the other entries are; the other entries are not
\* resolved, so a name no column has does not give ColumnNotFound.
C11_StarProjectsWholeRow ==
    (/\ stmt.kind = "Select"
     /\ stmt.join = <<>>
     /\ stmt.table_name \in DOMAIN prev
     /\ "*" \in Range(stmt.columns))
    => LET t == prev[stmt.table_name]
       IN /\ res.tag = "Data"
          /\ res.headers = [i \in 1..Len(t.columns) |-> t.columns[i].name]
          /\ res.rows = t.rows

C11_Witness ==
    /\ stmt.kind = "Select"
    /\ stmt.join = <<>>
    /\ stmt.table_name \in DOMAIN prev
    /\ stmt.columns = <<"a", "*">>
    /\ "a" \notin ColumnNameSet(prev[stmt.table_name])
    /\ Len(prev[stmt.table_name].columns) = 2
    /\ prev[stmt.table_name].rows # <<>>
    /\ res.tag = "Data"

\* C12: the headers of a successful join are "<left table>.<column>" for
\* every column of the left table in declaration order, followed by
\* "<right table>.<column>" for every column of the right table in
\* declaration order; there are as many headers as both tables have columns.
C12_JoinHeaders ==
    (/\ stmt.kind = "Select"
     /\ stmt.join # <<>>
     /\ res.tag = "Data")
    => LET l == prev[stmt.table_name]
           r == prev[stmt.join[1].table_name]
           nl == Len(l.columns)
           nr == Len(r.columns)
       IN /\ Len(res.headers) = nl + nr
          /\ \A k \in 1..nl :
                res.headers[k] = <<stmt.table_name, ".", l.columns[k].name>>
          /\ \A k \in 1..nr :
                res.headers[nl + k] = <<stmt.join[1].table_name, ".", r.columns[k].name>>

C12_Witness ==
    /\ stmt.kind = "Select"
    /\ stmt.join # <<>>
    /\ res.tag = "Data"
    /\ stmt.table_name # stmt.join[1].table_name
    /\ Len(prev[stmt.table_name].columns) = 2
    /\ Len(prev[stmt.join[1].table_name].columns) = 1
    /\ Len(res.headers) = 3

\* The pairs (left row i, right row j), ordered by i and then by j.
AllPairs(n, m) == [k \in 1..(n * m) |-> <<((k - 1) \div m) + 1, ((k - 1) % m) + 1>>]

\* C13: a successful join returns exactly one row for every pair (left row
\* i, right row j) whose join-column values are structurally equal (an
\* Integer never equals a Text), each row being the left row's values
\* followed by the right row's values, ordered by i and then by j; rows
\* without a partner contribute nothing.
C13_JoinRows ==
    (/\ stmt.kind = "Select"
     /\ stmt.join # <<>>
     /\ res.tag = "Data")
    => LET l == prev[stmt.table_name]
           r == prev[stmt.join[1].table_name]
           li == FirstPos(l, stmt.join[1].left_column)
           ri == FirstPos(r, stmt.join[1].right_column)
           Same(x, y) == /\ x.tag = y.tag
                         /\ x.tag = "Integer" => x.int = y.int
                         /\ x.tag = "Text" => x.text = y.text
           matching == SelectSeq(AllPairs(Len(l.rows), Len(r.rows)),
                                 LAMBDA p : Same(l.rows[p[1]][li], r.rows[p[2]][ri]))
       IN /\ Len(res.rows) = Len(matching)
          /\ \A k \in 1..Len(matching) :
                res.rows[k] = l.rows[matching[k][1]] \o r.rows[matching[k][2]]

C13_Witness ==
    /\ stmt.kind = "Select"
    /\ stmt.join # <<>>
    /\ res.tag = "Data"
    /\ Len(prev[stmt.table_name].rows) = 2
    /\ Len(res.rows) = 4
    /\ res.rows[2] # res.rows[3]

\* C14: every column name is unique within its table: in every reachable
\* Database no table has two columns of the same name.  create_table stores
\* the column list it is given without comparing names, so the statement
\* fails once a CREATE TABLE repeats a name.
C14_ColumnNamesUnique ==
    \A n \in DOMAIN db :
        \A i, j \in 1..Len(db[n].columns) :
            db[n].columns[i].name = db[n].columns[j].name => i = j

\* C15: across every step of execute the Database only grows: no table name
\* is lost, every table keeps its name and its columns, the rows a table
\* had are a prefix of the rows it has, and one step either changes
\* nothing, adds exactly one table, or appends exactly one row to exactly
\* one table, leaving every other table as it was.
C15_DatabaseOnlyGrows ==
    /\ DOMAIN prev \subseteq DOMAIN db
    /\ \A n \in DOMAIN prev :
          /\ db[n].name = prev[n].name
          /\ db[n].columns = prev[n].columns
          /\ Len(prev[n].rows) <= Len(db[n].rows)
          /\ SubSeq(db[n].rows, 1, Len(prev[n].rows)) = prev[n].rows
    /\ \/ db = prev
       \/ \E n \in DOMAIN db \ DOMAIN prev :
             /\ DOMAIN db = DOMAIN prev \cup {n}
             /\ \A m \in DOMAIN prev : db[m] = prev[m]
       \/ /\ DOMAIN db = DOMAIN prev
          /\ \E n \in DOMAIN db :
                /\ Len(db[n].rows) = Len(prev[n].rows) + 1
                /\ \A m \in DOMAIN db \ {n} : db[m] = prev[m]

C15_Witness ==
    /\ stmt.kind = "Insert"
    /\ res.tag = "Message"
    /\ DOMAIN prev = TableNames
    /\ Len(prev[stmt.table_name].rows) = 1
    /\ Len(db[stmt.table_name].rows) = 2
    /\ db[stmt.table_name].rows[1] # db[stmt.table_name].rows[2]

(***************************************************************************)
(* Properties of the parser.  Once parse has run, tokens[1] is the token   *)
(* sequence of query and parsed[1] the result.                             *)
(***************************************************************************)
IsDelimiter(c) == c \in {"(", ")", ","}
IsWordChar(c) == ~IsDelimiter(c) /\ ~is_whitespace(c)

\* C16: tokenize returns, for every text and without error, the tokens in
\* the order of the text: every `(`, `)` and `,` is a token of its own
\* whatever surrounds it, every other token is a maximal run of characters
\* that are neither whitespace nor parenthesis nor comma, no token is
\* empty, and the characters are kept as written.
C16_Tokenize ==
    tokens # <<>> =>
        LET t == tokens[1]
            delimiters == { i \in 1..Len(query) : IsDelimiter(query[i]) }
            runStarts == { i \in 1..Len(query) :
                              /\ IsWordChar(query[i])
                              /\ i = 1 \/ ~IsWordChar(query[i - 1]) }
        IN /\ Concat(t) = SelectSeq(query, LAMBDA c : ~is_whitespace(c))
           /\ \A k \in 1..Len(t) :
                 /\ t[k] # <<>>
                 /\ \/ Len(t[k]) = 1 /\ IsDelimiter(t[k][1])
                    \/ \A i \in 1..Len(t[k]) : IsWordChar(t[k][i])
           /\ Len(t) = Cardinality(delimiters) + Cardinality(runStarts)

C16_Witness ==
    /\ tokens # <<>>
    /\ Len(query) = 4
    /\ Len(tokens[1]) = 3
    /\ \E i \in 1..3 : IsWordChar(query[i]) /\ IsDelimiter(query[i + 1])
    /\ \E i \in 1..4 : is_whitespace(query[i])
    /\ \E k \in 1..3 : tokens[1][k] = <<"B">>

\* What each grammar can return: a Statement of its kind or one of its errors.
CreateOutcome(r) ==
    \/ r.tag = "Ok" /\ r.stmt.kind = "CreateTable"
    \/ r.tag = "Err" /\ r.msg \in { "Expected TABLE after CREATE", "Expected table name",
                                   "Expected '('", "Expected column type" }
InsertOutcome(r) ==
    \/ r.tag = "Ok" /\ r.stmt.kind = "Insert"
    \/ r.tag = "Err" /\ r.msg \in { "Expected INTO after CREATE", "Expected table name",
                                   "Expected VALUES after INTO", "Expected '('" }
SelectOutcome(r) ==
    \/ r.tag = "Ok" /\ r.stmt.kind = "Select"
    \/ r.tag = "Err" /\ r.msg \in { "Expected table name", "Expected join table",
                                   "Expected left col", "Expected right col" }

\* parse on no token, and on a first token that is a command in any case.
EmptyAndDispatch ==
    parsed # <<>> =>
        LET t == tokens[1]
            r == parsed[1]
        IN /\ t = <<>> => r = ParseErr("Empty query", <<>>)
           /\ (t # <<>> /\ to_uppercase(t[1]) = kwCREATE) => CreateOutcome(r)
           /\ (t # <<>> /\ to_uppercase(t[1]) = kwINSERT) => InsertOutcome(r)
           /\ (t # <<>> /\ to_uppercase(t[1]) = kwSELECT) => SelectOutcome(r)

UnknownCommand ==
    /\ parsed # <<>>
    /\ tokens[1] # <<>>
    /\ to_uppercase(tokens[1][1]) \notin {kwCREATE, kwINSERT, kwSELECT}

\* C17, as stated: parse fails with "Empty query" when the text has no
\* token, selects the CREATE, INSERT or SELECT grammar by the first token
\* compared without regard to case, and on any other first token fails with
\* "Unknown command" naming that token as it was written.
C17_UnknownCommandNamesToken ==
    /\ EmptyAndDispatch
    /\ UnknownCommand => parsed[1] = ParseErr("Unknown command: {}", tokens[1][1])

\* C17, amended: as above, except that the "Unknown command" error names
\* the first token converted to upper case.
C17_UnknownCommandNamesUpperCased ==
    /\ EmptyAndDispatch
    /\ UnknownCommand =>
          parsed[1] = ParseErr("Unknown command: {}", to_uppercase(tokens[1][1]))

C17_Witness ==
    /\ UnknownCommand
    /\ Len(tokens[1]) = 3
    /\ parsed[1].tag = "Err"
    /\ parsed[1].msg = "Unknown command: {}"
    /\ parsed[1].arg # tokens[1][1]

\* The pieces of a token sequence between the occurrences of sep.
RECURSIVE SplitOn(_, _)
SplitOn(ts, sep) ==
    LET at == { i \in 1..Len(ts) : ts[i] = sep }
    IN IF at = {} THEN <<ts>>
       ELSE <<SubSeq(ts, 1, Min(at) - 1)>> \o SplitOn(SubSeq(ts, Min(at) + 1, Len(ts)), sep)

\* The tokens start CREATE TABLE <name> (
CreateHead(t) ==
    /\ Len(t) >= 4
    /\ to_uppercase(t[1]) = kwCREATE
    /\ to_uppercase(t[2]) = kwTABLE
    /\ t[4] = LParen

\* The tokens after the `(` of a CREATE TABLE.
CreateBody(t) == SubSeq(t, 5, Len(t))

\* The column definitions of a closed column list: the pieces, separated by
\* commas, of the tokens before the first `)`.
Definitions(body) ==
    LET inner == SubSeq(body, 1, Min({ i \in 1..Len(body) : body[i] = RParen }) - 1)
    IN IF inner = <<>> THEN <<>> ELSE SplitOn(inner, Comma)

ExampleCreate ==
    <<"C", "R", "E", "A", "T", "E", " ", "T", "A", "B", "L", "E", " ", "t", " ", "(", "i", "d", " ", "I", "N", "T", " ", "P", "R", "I", "M", "A", "R", "Y", ",", " ", "n", "a", "m", "e", " ", "T", "E", "X", "T", ")">>

\* C18: a CREATE TABLE statement whose column list is closed and whose
\* comma-separated definitions each have a name and a type parses into one
\* column per definition, in order: the name is the definition's first
\* token, and is_primary (is_unique) is true exactly when PRIMARY (UNIQUE),
\* in any case, occurs at least once among the tokens after the type; the
\* two may come in either order, repeats change nothing and other tokens
\* are skipped.  `CREATE TABLE t (id INT PRIMARY, name TEXT)` gives two
\* columns, the first primary and not unique, the second neither.
C18_CreateColumns ==
    /\ (/\ parsed # <<>>
        /\ CreateHead(tokens[1])
        /\ RParen \in Range(CreateBody(tokens[1]))
        /\ \A k \in DOMAIN Definitions(CreateBody(tokens[1])) :
              Len(Definitions(CreateBody(tokens[1]))[k]) >= 2)
       => LET defs == Definitions(CreateBody(tokens[1]))
              Has(d, kw) == \E i \in 3..Len(d) : to_uppercase(d[i]) = kw
          IN /\ parsed[1].tag = "Ok"
             /\ parsed[1].stmt.kind = "CreateTable"
             /\ parsed[1].stmt.name = tokens[1][3]
             /\ Len(parsed[1].stmt.columns) = Len(defs)
             /\ \A k \in 1..Len(defs) :
                   LET col == parsed[1].stmt.columns[k]
                   IN /\ col.name = defs[k][1]
                      /\ col.is_primary <=> Has(defs[k], kwPRIMARY)
                      /\ col.is_unique <=> Has(defs[k], kwUNIQUE)
    /\ (parsed # <<>> /\ query = ExampleCreate)
       => /\ parsed[1].tag = "Ok"
          /\ parsed[1].stmt.name = <<"t">>
          /\ Len(parsed[1].stmt.columns) = 2
          /\ parsed[1].stmt.columns[1].name = <<"i", "d">>
          /\ parsed[1].stmt.columns[1].is_primary
          /\ ~parsed[1].stmt.columns[1].is_unique
          /\ parsed[1].stmt.columns[2].name = <<"n", "a", "m", "e">>
          /\ ~parsed[1].stmt.columns[2].is_primary
          /\ ~parsed[1].stmt.columns[2].is_unique

\* create table t (id int unique primary primary, name text not null)
C18_Witness ==
    /\ parsed # <<>>
    /\ CreateHead(tokens[1])
    /\ Len(tokens[1]) = 15
    /\ parsed[1].tag = "Ok"
    /\ Len(parsed[1].stmt.columns) = 2
    /\ parsed[1].stmt.columns[1].is_primary
    /\ parsed[1].stmt.columns[1].is_unique
    /\ ~parsed[1].stmt.columns[2].is_primary
    /\ ~parsed[1].stmt.columns[2].is_unique

\* The tokens of a CREATE TABLE end where a column's type is expected: the
\* column list is open, its last comma-separated piece is a single token
\* (a column name) and no earlier piece is (such a name would take the
\* comma as its type and the rest as modifiers).
EndsBeforeType(t) ==
    /\ CreateHead(t)
    /\ RParen \notin Range(CreateBody(t))
    /\ LET pieces == SplitOn(CreateBody(t), Comma)
       IN /\ Len(pieces[Len(pieces)]) = 1
          /\ \A k \in 1..(Len(pieces) - 1) : Len(pieces[k]) # 1

BadCreate(t) ==
    /\ t # <<>>
    /\ to_uppercase(t[1]) = kwCREATE
    /\ \/ Len(t) < 2 \/ to_uppercase(t[2]) # kwTABLE
       \/ Len(t) = 2
       \/ Len(t) = 3 \/ t[4] # LParen
       \/ EndsBeforeType(t)

BadInsert(t) ==
    /\ t # <<>>
    /\ to_uppercase(t[1]) = kwINSERT
    /\ \/ Len(t) < 2 \/ to_uppercase(t[2]) # kwINTO
       \/ Len(t) = 2
       \/ Len(t) = 3 \/ to_uppercase(t[4]) # kwVALUES
       \/ Len(t) = 4 \/ t[5] # LParen

\* C19: the parser returns an error, and no Statement, for a CREATE whose
\* second token is not TABLE, whose table name is missing, whose token
\* after the table name is not `(`, or whose tokens end where a column's
\* type is required, and for an INSERT whose second token is not INTO,
\* whose table name is missing, whose token after the table name is not
\* VALUES, or whose token after VALUES is not `(`.
C19_MalformedRejected ==
    (parsed # <<>> /\ (BadCreate(tokens[1]) \/ BadInsert(tokens[1])))
    => parsed[1].tag = "Err"

C19_Witness ==
    /\ parsed # <<>>
    /\ Len(tokens[1]) = 5
    /\ to_uppercase(tokens[1][1]) = kwINSERT
    /\ to_uppercase(tokens[1][2]) = kwINTO
    /\ to_uppercase(tokens[1][4]) = kwVALUES
    /\ tokens[1][5] # LParen
    /\ parsed[1] = ParseErr("Expected '('", <<>>)

\* C20: parse_create checks that the statement is closed with `)`: a CREATE
\* TABLE whose column list is not terminated by `)` before the end of the
\* text is rejected with an error and not parsed into a CreateTable.  The
\* column loop ends at the end of the tokens as it does at `)`, so the
\* statement fails on `CREATE TABLE t (id INT`.
C20_UnclosedCreateRejected ==
    (/\ parsed # <<>>
     /\ CreateHead(tokens[1])
     /\ RParen \notin Range(CreateBody(tokens[1])))
    => parsed[1].tag = "Err"

\* The tokens start INSERT INTO <name> VALUES ( and the value list is closed.
InsertHead(t) ==
    /\ Len(t) >= 6
    /\ to_uppercase(t[1]) = kwINSERT
    /\ to_uppercase(t[2]) = kwINTO
    /\ to_uppercase(t[4]) = kwVALUES
    /\ t[5] = LParen
    /\ RParen \in Range(SubSeq(t, 6, Len(t)))

\* The value tokens: those between the `(` and the first `)`, commas left out.
ValueTokens(t) ==
    LET rest == SubSeq(t, 6, Len(t))
        close == Min({ i \in 1..Len(rest) : rest[i] = RParen })
    IN SelectSeq(SubSeq(rest, 1, close - 1), LAMBDA v : v # Comma)

\* The decimal digits of a token that lexes as an integer: an optional sign
\* and one digit or more.
IsDecimal(v) ==
    LET ds == IF v # <<>> /\ v[1] \in {"+", "-"} THEN Tail(v) ELSE v
    IN ds # <<>> /\ \A i \in 1..Len(ds) : ds[i] \in Range(Digits)

Significant(v) ==
    LET ds == IF v[1] \in {"+", "-"} THEN Tail(v) ELSE v
        nz == { i \in 1..Len(ds) : ds[i] # "0" }
    IN IF nz = {} THEN <<>> ELSE SubSeq(ds, Min(nz), Len(ds))

RECURSIVE Pow10(_)
Pow10(n) == IF n = 0 THEN 1 ELSE 10 * Pow10(n - 1)

\* ds is below or equal to limit, both of ten digits, digit by digit.
NotAbove(ds, limit) ==
    \/ ds = limit
    \/ \E i \in 1..10 : /\ DigitValue(ds[i]) < DigitValue(limit[i])
                        /\ \A j \in 1..(i - 1) : ds[j] = limit[j]

\* The token is the decimal notation of a number of 32 bits.
LexesAsI32(v) ==
    /\ IsDecimal(v)
    /\ LET ds == Significant(v)
       IN \/ Len(ds) < 10
          \/ /\ Len(ds) = 10
             /\ IF v[1] = "-"
                THEN NotAbove(ds, <<"2", "1", "4", "7", "4", "8", "3", "6", "4", "8">>)
                ELSE NotAbove(ds, <<"2", "1", "4", "7", "4", "8", "3", "6", "4", "7">>)

\* The number a token that lexes as an i32 denotes, summed digit by digit.
RECURSIVE SignedSum(_, _)
SignedSum(ds, sign) ==
    IF ds = <<>> THEN 0
    ELSE sign * DigitValue(ds[1]) * Pow10(Len(ds) - 1) + SignedSum(Tail(ds), sign)

NumberOf(v) == SignedSum(Significant(v), IF v[1] = "-" THEN -1 ELSE 1)

\* v without one pair of surrounding quotes, if it has one.
OnePairStripped(v) ==
    IF Len(v) >= 2 /\ v[1] = "'" /\ v[Len(v)] = "'" THEN SubSeq(v, 2, Len(v) - 1) ELSE v

\* r is v without its leading and trailing quotes, however many.
AllQuotesStripped(v, r) ==
    \E i \in 0..Len(v) : \E j \in i..Len(v) :
        /\ r = SubSeq(v, i + 1, j)
        /\ \A k \in 1..i : v[k] = "'"
        /\ \A k \in (j + 1)..Len(v) : v[k] = "'"
        /\ r = <<>> \/ (r[1] # "'" /\ r[Len(r)] # "'")

\* C21, as stated: in a parsed INSERT every value token becomes, in order,
\* Integer(n) when it lexes as the 32-bit integer n, and otherwise Text of
\* the token without one pair of surrounding single quotes, one level only.
C21_OneQuoteLevelStripped ==
    (parsed # <<>> /\ InsertHead(tokens[1]))
    => LET vs == ValueTokens(tokens[1])
       IN /\ parsed[1].tag = "Ok"
          /\ parsed[1].stmt.kind = "Insert"
          /\ Len(parsed[1].stmt.values) = Len(vs)
          /\ \A k \in 1..Len(vs) :
                parsed[1].stmt.values[k] =
                    IF LexesAsI32(vs[k]) THEN Integer(NumberOf(vs[k]))
                    ELSE Text(OnePairStripped(vs[k]))

\* C21, amended: as above, except that a Text value is the token without
\* any of its leading and trailing single quotes, paired or not; quotes
\* inside the token stay.
C21_AllQuotesStripped ==
    (parsed # <<>> /\ InsertHead(tokens[1]))
    => LET vs == ValueTokens(tokens[1])
       IN /\ parsed[1].tag = "Ok"
          /\ parsed[1].stmt.kind = "Insert"
          /\ Len(parsed[1].stmt.values) = Len(vs)
          /\ \A k \in 1..Len(vs) :
                LET val == parsed[1].stmt.values[k]
                IN IF LexesAsI32(vs[k]) THEN val = Integer(NumberOf(vs[k]))
                   ELSE /\ val.tag = "Text"
                        /\ AllQuotesStripped(vs[k], val.text)

C21_Witness ==
    /\ parsed # <<>>
    /\ InsertHead(tokens[1])
    /\ ValueTokens(tokens[1]) = << <<"'", "'", "a", "'", "'">> >>
    /\ parsed[1].tag = "Ok"
    /\ parsed[1].stmt.values = <<Text(<<"a">>)>>

\* C22: in a parsed SELECT the column list is every token before the first
\* FROM (in any case) except the commas; the next token is the table name;
\* with no token after it the statement has no join; with any token after
\* it a join is parsed: that token, the join table, a skipped token, the
\* left column, a skipped token, the right column.  The end of the tokens
\* at the table name, the join table, the left column or the right column
\* gives an "Expected ..." error.
C22_ParseSelect ==
    (parsed # <<>> /\ tokens[1] # <<>> /\ to_uppercase(tokens[1][1]) = kwSELECT)
    => LET t == tokens[1]
           r == parsed[1]
           froms == { i \in 2..Len(t) : to_uppercase(t[i]) = kwFROM }
           f == IF froms = {} THEN Len(t) ELSE Min(froms)
           n == Len(t) - f
           listed == SelectSeq(SubSeq(t, 2, f - 1), LAMBDA x : x # Comma)
       IN /\ n = 0 => r = ParseErr("Expected table name", <<>>)
          /\ n = 1 => r = Ok(Select(t[f + 1], listed, <<>>))
          /\ n = 2 => r = ParseErr("Expected join table", <<>>)
          /\ n \in {3, 4} => r = ParseErr("Expected left col", <<>>)
          /\ n \in {5, 6} => r = ParseErr("Expected right col", <<>>)
          /\ n >= 7 => r = Ok(Select(t[f + 1], listed,
                                     <<JoinDefinition(t[f + 3], t[f + 5], t[f + 7])>>))

\* SELECT a, b FROM t JOIN u ON a = b
C22_Witness ==
    /\ parsed # <<>>
    /\ Len(tokens[1]) = 12
    /\ to_uppercase(tokens[1][1]) = kwSELECT
    /\ parsed[1].tag = "Ok"
    /\ parsed[1].stmt.columns = << <<"a">>, <<"b">> >>
    /\ parsed[1].stmt.join = <<JoinDefinition(<<"u">>, <<"a">>, <<"b">>)>>

\* C23: in every state reached from the empty Database by calls of execute,
\* every row of every table has as many values as the table has columns,
\* so every position a projection or a join resolves lies within every
\* row, and every row of a result has as many values as the result has
\* headers.
C23_RowsFitColumns ==
    /\ \A n \in DOMAIN db :
          \A r \in 1..Len(db[n].rows) : Len(db[n].rows[r]) = Len(db[n].columns)
    /\ (stmt.kind = "Select" /\ res.tag = "Data")
       => \A r \in 1..Len(res.rows) : Len(res.rows[r]) = Len(res.headers)

C23_Witness ==
    /\ stmt.kind = "Select"
    /\ stmt.join # <<>>
    /\ stmt.table_name # stmt.join[1].table_name
    /\ res.tag = "Data"
    /\ res.rows # <<>>
    /\ Len(db[stmt.table_name].columns) = 2
    /\ Len(db[stmt.join[1].table_name].columns) = 1

(***************************************************************************)
(* Properties of the front ends.                                           *)
(***************************************************************************)
\* The handlers that hold the lock's guard by their position in the code.
InHandlerBody == { r \in Handlers : reqs[r].pc \in {"running", "parsed", "executed", "responding"} }

\* C24: in the web server every request takes the one exclusive write lock
\* before it parses and holds it through execute and save, so no two
\* requests are between parse and answer at once, and the Database equals
\* the one obtained by running the requests one at a time in the order in
\* which they took the lock: always when the lock is free, and as soon as
\* the holder has executed.
C24_RequestsSerialized ==
    frontEnd = "web" =>
        /\ Cardinality(InHandlerBody) <= 1
        /\ \A r \in InHandlerBody : lock = r
        /\ lock = 0 => db = serial
        /\ \A r \in Handlers : reqs[r].pc \in {"executed", "responding"} => db = serial

C24_Witness ==
    /\ frontEnd = "web"
    /\ lock = 1
    /\ reqs[1].pc = "executed"
    /\ reqs[1].parsed[1].stmt.kind = "Insert"
    /\ IsOk(reqs[1].result[1])
    /\ reqs[2].pc = "waiting"
    /\ parse(reqs[2].sql).tag = "Ok"
    /\ parse(reqs[2].sql).stmt.kind = "Insert"
    /\ reqs[2].sql # reqs[1].sql
    /\ RunAlone(db, reqs[2].sql) # db

\* The request of handler r was a CreateTable or an Insert that execute accepted.
MutatedDatabase(r) ==
    /\ reqs[r].parsed # <<>>
    /\ reqs[r].parsed[1].tag = "Ok"
    /\ reqs[r].parsed[1].stmt.kind \in {"CreateTable", "Insert"}
    /\ reqs[r].result # <<>>
    /\ reqs[r].result[1].tag \in {"Message", "Data"}

\* C25: in both front ends save_to_disk is called after an execute exactly
\* when the statement is a CreateTable or an Insert and execute succeeded,
\* and never after a Select, a syntax error or a failed execute; so, when
\* the latest save succeeded and no accepted mutation is still waiting for
\* its save, the file holds the tables, columns and rows of the Database.
C25_SaveAfterMutation ==
    /\ \A r \in Handlers :
          reqs[r].pc \in {"responding", "exited"}
          => (reqs[r].save = "invoked" <=> MutatedDatabase(r))
    /\ (/\ lastSave = <<OkUnit>>
        /\ \A r \in Handlers : ~(reqs[r].pc = "executed" /\ MutatedDatabase(r)))
       => /\ disk.kind = "regular"
          /\ disk.bytes = "database"
          /\ DOMAIN disk.tables = DOMAIN db
          /\ \A n \in DOMAIN db :
                /\ disk.tables[n].name = db[n].name
                /\ disk.tables[n].columns = db[n].columns
                /\ disk.tables[n].rows = db[n].rows

C25_Witness ==
    /\ frontEnd = "repl"
    /\ reqs[1].pc = "responding"
    /\ reqs[1].save = "invoked"
    /\ lastSave = <<OkUnit>>
    /\ arrived = 3
    /\ \E n \in DOMAIN db : Len(db[n].rows) = 2 /\ disk.tables[n].rows = db[n].rows

\* C26: in the join path the requested column list has no effect: for the
\* Database and the join definition of a call, every column list (with or
\* without `*`, empty, or naming columns neither table has) gives the
\* outcome the call gave, the same error or the same headers and rows over
\* all columns of both tables; ColumnNotFound, when returned, names a join
\* column that its table lacks, never a name of the list.
C26_JoinIgnoresColumnList ==
    (stmt.kind = "Select" /\ stmt.join # <<>>)
    => /\ \A cols \in SelLists :
             execute(prev, Select(stmt.table_name, cols, stmt.join)).res = res
       /\ res.tag = "Data" =>
             Len(res.headers) = Len(prev[stmt.table_name].columns)
                                + Len(prev[stmt.join[1].table_name].columns)
       /\ res.tag = "ColumnNotFound" =>
             \/ /\ res.arg = stmt.join[1].left_column
                /\ res.arg \notin ColumnNameSet(prev[stmt.table_name])
             \/ /\ res.arg = stmt.join[1].right_column
                /\ res.arg \notin ColumnNameSet(prev[stmt.join[1].table_name])

C26_Witness ==
    /\ stmt.kind = "Select"
    /\ stmt.join # <<>>
    /\ res.tag = "Data"
    /\ res.rows # <<>>
    /\ stmt.columns = <<"a">>
    /\ "a" \notin ColumnNameSet(prev[stmt.table_name])
    /\ "a" \notin ColumnNameSet(prev[stmt.join[1].table_name])
    /\ stmt.table_name # stmt.join[1].table_name

====
